---- MODULE Spec2Model ----
(***************************************************************************)
(* A model of sigma_mcp_server.py: the SigmaAPI client (token cache,       *)
(* authenticated requests, response classification), the start-up path of  *)
(* main(), and handle_call_tool with every tool branch.                    *)
(*                                                                         *)
(* Python values are tagged records ([ty |-> "str", s |-> ...], ...), so   *)
(* that truthiness, isinstance, dict access and json.dumps are computed as *)
(* Python computes them.  Texts, endpoints and content types are strings.  *)
(* One step of the model is one run of a coroutine between two network     *)
(* suspensions (asyncio runs a coroutine without interleaving until it     *)
(* awaits the network).                                                    *)
(***************************************************************************)
EXTENDS Integers, Sequences, FiniteSets, TLC

VARIABLES
    env,               \* os.environ: SIGMA_CLIENT_ID, SIGMA_CLIENT_SECRET
    sigma_api,         \* the global client (None until init_sigma_api)
    access_token,      \* SigmaAPI.access_token
    token_expires_at,  \* SigmaAPI.token_expires_at
    now,               \* datetime.now(), in minutes
    main_pc,           \* position of main(): start, preflight, serving, exited
    task,              \* the tool invocations (handle_call_tool coroutines)
    stored_at,         \* history: when the cached token was stored
    main_gat,          \* history: the start of main's get_access_token call
    gatLog,            \* history: the last get_access_token call that ended
    mrLog              \* history: the last make_request call that ended

vars == <<env, sigma_api, access_token, token_expires_at, now, main_pc, task,
          stored_at, main_gat, gatLog, mrLog>>

(***************************************************************************)
(* Bounds of the model.                                                    *)
(***************************************************************************)
NumTasks == 2
MaxTime == 56
MaxGrants == 2

Tasks == 1..NumTasks

\* The clock advances in steps that reach 54, 55 and 56 minutes after a
\* token stored at minute 0: just before, exactly at and after its expiry.
TickSteps == {27, 28}
\* Where only a valid and an expired token need telling apart, the clock
\* advances by the token's whole cache life.
CoarseTickSteps == {55}

(***************************************************************************)
(* Python values.                                                          *)
(***************************************************************************)
PyNone == [ty |-> "none"]
S(s) == [ty |-> "str", s |-> s]
I(n) == [ty |-> "int", n |-> n]
B(b) == [ty |-> "bool", b |-> b]
Bytes(content, n) == [ty |-> "bytes", content |-> content, n |-> n]
L(items) == [ty |-> "list", items |-> items]
D(items) == [ty |-> "dict", items |-> items]
DateTime(t) == [ty |-> "datetime", t |-> t]
PyObject(cls) == [ty |-> "object", cls |-> cls]

\* bool(v): the truth value Python's `if v:` and `not v` test.
Truthy(v) ==
    CASE v.ty = "none" -> FALSE
      [] v.ty = "str" -> v.s # ""
      [] v.ty = "int" -> v.n # 0
      [] v.ty = "bool" -> v.b
      [] v.ty = "bytes" -> v.n # 0
      [] v.ty = "list" -> Len(v.items) > 0
      [] v.ty = "dict" -> Len(v.items) > 0
      [] OTHER -> TRUE

\* str(v), as an f-string formats it.
PyStr(v) ==
    CASE v.ty = "none" -> "None"
      [] v.ty = "str" -> v.s
      [] v.ty = "int" -> ToString(v.n)
      [] v.ty = "bool" -> IF v.b THEN "True" ELSE "False"
      [] OTHER -> "<" \o v.ty \o ">"

\* s.startswith(p) and `sub in s` on strings.
StartsWith(s, p) == Len(s) >= Len(p) /\ SubSeq(s, 1, Len(p)) = p
Contains(s, sub) ==
    \E i \in 1..(Len(s) - Len(sub) + 1) : SubSeq(s, i, i + Len(sub) - 1) = sub

\* dict operations; a dict keeps its insertion order as a sequence of pairs.
DictKeys(d) == {d.items[i][1] : i \in 1..Len(d.items)}
DictHas(d, k) == k \in DictKeys(d)
DictGet(d, k, default) ==
    IF DictHas(d, k)
    THEN d.items[CHOOSE i \in 1..Len(d.items) : d.items[i][1] = k][2]
    ELSE default
DictSet(d, k, v) ==
    IF DictHas(d, k)
    THEN D([i \in 1..Len(d.items) |->
              IF d.items[i][1] = k THEN <<k, v>> ELSE d.items[i]])
    ELSE D(Append(d.items, <<k, v>>))

RECURSIVE DictUpdate(_, _)
DictUpdate(d, pairs) ==
    IF pairs = <<>> THEN d
    ELSE DictUpdate(DictSet(d, pairs[1][1], pairs[1][2]), Tail(pairs))

\* json.dumps raises TypeError on bytes, wherever they sit in the value.
RECURSIVE JsonSerializable(_)
JsonSerializable(v) ==
    CASE v.ty = "bytes" -> FALSE
      [] v.ty = "list" ->
            \A i \in 1..Len(v.items) : JsonSerializable(v.items[i])
      [] v.ty = "dict" ->
            \A i \in 1..Len(v.items) : JsonSerializable(v.items[i][2])
      [] OTHER -> TRUE

RECURSIVE Spaces(_)
Spaces(n) == IF n <= 0 THEN "" ELSE "  " \o Spaces(n - 1)

\* json.dumps(v, indent=2) of a serializable value, at nesting depth `depth`.
\* The strings of the model hold no character json.dumps would escape.
RECURSIVE JsonText(_, _)
RECURSIVE JsonItems(_, _, _)
JsonItems(v, i, depth) ==
    IF i > Len(v.items) THEN ""
    ELSE Spaces(depth)
         \o (IF v.ty = "dict"
             THEN "\"" \o v.items[i][1] \o "\": " \o JsonText(v.items[i][2], depth)
             ELSE JsonText(v.items[i], depth))
         \o (IF i < Len(v.items) THEN ",\n" ELSE "\n")
         \o JsonItems(v, i + 1, depth)
JsonText(v, depth) ==
    CASE v.ty = "none" -> "null"
      [] v.ty = "str" -> "\"" \o v.s \o "\""
      [] v.ty = "int" -> ToString(v.n)
      [] v.ty = "bool" -> IF v.b THEN "true" ELSE "false"
      [] v.ty = "list" ->
            IF Len(v.items) = 0 THEN "[]"
            ELSE "[\n" \o JsonItems(v, 1, depth + 1) \o Spaces(depth) \o "]"
      [] v.ty = "dict" ->
            IF Len(v.items) = 0 THEN "{}"
            ELSE "{\n" \o JsonItems(v, 1, depth + 1) \o Spaces(depth) \o "}"

\* Exceptions; str(KeyError(k)) is the key in quotes.
Exc(type, msg) == [type |-> type, msg |-> msg]
KeyError(k) == Exc("KeyError", "'" \o k \o "'")

(***************************************************************************)
(* HTTP: responses of the platform, as httpx presents them.                *)
(***************************************************************************)
BaseUrl == "https://aws-api.sigmacomputing.com"

\* A body: its decoded text, its length in characters and in bytes, and the
\* value response.json() parses it to.
Body(content, nchars, nbytes, json) ==
    [content |-> content, nchars |-> nchars, nbytes |-> nbytes, json |-> json]
EmptyBody == Body("", 0, 0, PyNone)

\* A response: status code, the content-type header (PyNone when the header
\* is missing) and the body.
Response(status, ctype, body) == [status |-> status, ctype |-> ctype, body |-> body]

\* response.headers.get("content-type", default)
HeaderGet(resp, default) == IF resp.ctype.ty = "none" THEN default ELSE resp.ctype

\* A different rule, for comparison: only 4xx and 5xx fail.
IsSuccessAllBelow400(status) == status < 400
\* httpx.Response.is_success, the test of raise_for_status().
IsSuccess(status) == status >= 200 /\ status <= 299

\* The HTTPStatusError raise_for_status() raises, and its message.
HTTPStatusError(status, url) ==
    Exc("HTTPStatusError",
        (CASE status \div 100 = 1 -> "Informational response"
           [] status \div 100 = 3 -> "Redirect response"
           [] status \div 100 = 4 -> "Client error"
           [] OTHER -> "Server error")
        \o " '" \o ToString(status) \o "' for url '" \o url \o "'")

\* A request of the client: method, endpoint, the json= payload (PyNone
\* when there is none) and the headers.
Request(method, endpoint, json, headers) ==
    [method |-> method, endpoint |-> endpoint, json |-> json, headers |-> headers]
NoRequest == Request("", "", PyNone, D(<<>>))
JsonHeaders == D(<< <<"Content-Type", S("application/json")>> >>)

(***************************************************************************)
(* SigmaAPI.get_access_token                                               *)
(***************************************************************************)
TokenTtlMinutes == 55

\* A different rule, for comparison: the token is still used at its expiry.
CacheHitInclusive ==
    /\ Truthy(access_token)
    /\ Truthy(token_expires_at)
    /\ now <= token_expires_at.t
\* line 56: the cached token is returned while this holds.
CacheHit ==
    /\ Truthy(access_token)
    /\ Truthy(token_expires_at)
    /\ now < token_expires_at.t

\* A different rule, for comparison: the token's full hour.
NewExpiryFullHour(t) == DateTime(t + 60)
\* line 76: the expiry stored with a new token.
NewExpiry(t) == DateTime(t + TokenTtlMinutes)

\* lines 71-74: what the exchange response gives: the token, or the
\* exception raised by raise_for_status() or by token_data["access_token"].
TokenExchange(resp) ==
    IF ~IsSuccess(resp.status)
    THEN [ok |-> FALSE, exc |-> HTTPStatusError(resp.status, BaseUrl \o "/v2/auth/token")]
    ELSE IF ~DictHas(resp.body.json, "access_token")
    THEN [ok |-> FALSE, exc |-> KeyError("access_token")]
    ELSE [ok |-> TRUE, token |-> DictGet(resp.body.json, "access_token", PyNone)]

\* A different rule, for comparison: a failed exchange empties the cache.
CacheAfterExchangeClearing(out) ==
    IF out.ok THEN <<out.token, NewExpiry(now)>> ELSE <<PyNone, PyNone>>
\* A different rule, for comparison: the token is stored, the expiry is not.
CacheAfterExchangeTokenOnly(out) ==
    IF out.ok THEN <<out.token, token_expires_at>> ELSE <<access_token, token_expires_at>>
\* lines 71-76: the cache <<access_token, token_expires_at>> after the
\* exchange response: written only when the exchange gave a token.
CacheAfterExchange(out) ==
    IF out.ok THEN <<out.token, NewExpiry(now)>> ELSE <<access_token, token_expires_at>>

(***************************************************************************)
(* SigmaAPI.make_request                                                   *)
(***************************************************************************)
\* A different rule, for comparison: the headers are built anew.
WithAuthOnly(req, token) ==
    [req EXCEPT !.headers = D(<< <<"Authorization", S("Bearer " \o PyStr(token))>> >>)]
\* lines 83-85: the caller's headers with the Authorization header set.
WithAuth(req, token) ==
    [req EXCEPT !.headers = DictSet(req.headers, "Authorization", S("Bearer " \o PyStr(token)))]

\* A different rule, for comparison: the 204 result without its status key.
NotReadyResultMessageOnly ==
    D(<< <<"message", S("Export is still processing. Please wait and try again.")>> >>)
\* lines 92-93
NotReadyResult ==
    D(<< <<"status", S("not_ready")>>,
         <<"message", S("Export is still processing. Please wait and try again.")>> >>)
TextResult(resp) ==
    D(<< <<"data", S(resp.body.content)>>,
         <<"content_type", resp.ctype>>,
         <<"size", I(resp.body.nbytes)>> >>)
BinaryResult(resp) ==
    D(<< <<"data", Bytes(resp.body.content, resp.body.nbytes)>>,
         <<"content_type", resp.ctype>>,
         <<"size", I(resp.body.nbytes)>> >>)

\* A different rule, for comparison: the content type is tested before 204.
ClassifyContentTypeFirst(resp) ==
    IF StartsWith(HeaderGet(resp, S("")).s, "application/json") THEN resp.body.json
    ELSE IF resp.status = 204 THEN NotReadyResult
    ELSE IF StartsWith(HeaderGet(resp, S("")).s, "text/") THEN TextResult(resp)
    ELSE BinaryResult(resp)
\* lines 91-101: the result of a response that passed raise_for_status().
Classify(resp) ==
    IF resp.status = 204 THEN NotReadyResult
    ELSE IF StartsWith(HeaderGet(resp, S("")).s, "application/json") THEN resp.body.json
    ELSE IF StartsWith(HeaderGet(resp, S("")).s, "text/") THEN TextResult(resp)
    ELSE BinaryResult(resp)

\* lines 88-101: what make_request gives its caller for a response.
Received(req, resp) ==
    IF ~IsSuccess(resp.status)
    THEN [ok |-> FALSE, exc |-> HTTPStatusError(resp.status, BaseUrl \o req.endpoint)]
    ELSE [ok |-> TRUE, data |-> Classify(resp)]

(***************************************************************************)
(* handle_call_tool: the tool branches.                                    *)
(*                                                                         *)
(* `arguments` is a function from the keys the caller supplied to Python   *)
(* values.  A branch runs until it returns, raises or awaits make_request: *)
(* Return(text), Refuse(text), Raise(exc) or Send(req, step, locals),      *)
(* where step names the await the coroutine is suspended at and locals are *)
(* the local variables it needs after it.  Refuse is the return of a       *)
(* branch that rejects its arguments; `failure` is history, it marks the   *)
(* returns of a call that did not do what was asked.                       *)
(***************************************************************************)
Return(text) == [kind |-> "return", text |-> text, failure |-> FALSE]
Refuse(text) == [kind |-> "return", text |-> text, failure |-> TRUE]
Raise(exc) == [kind |-> "raise", exc |-> exc]
Escape(exc) == [kind |-> "escape", exc |-> exc]
NoLocals == [data |-> PyNone, member_names |-> <<>>]
Send(req, step, locals) == [kind |-> "send", req |-> req, step |-> step, locals |-> locals]
Get1(req) == Send(req, "main", NoLocals)

\* arguments.get(k, default) and arguments.get(k)
Get(arguments, k, default) == IF k \in DOMAIN arguments THEN arguments[k] ELSE default
GetOpt(arguments, k) == Get(arguments, k, PyNone)

\* arguments[k1], arguments[k2], ... in the order the branch evaluates them:
\* the first missing key raises KeyError, otherwise the branch goes on.
Subscript(arguments, keys, eff) ==
    LET missing == {i \in 1..Len(keys) : keys[i] \notin DOMAIN arguments}
    IN  IF missing = {} THEN eff
        ELSE Raise(KeyError(keys[CHOOSE i \in missing : \A j \in missing : i <= j]))

\* "&".join([f"{k}={v}" for k, v in params.items()])
RECURSIVE QueryString(_)
QueryString(params) ==
    IF params = <<>> THEN ""
    ELSE params[1][1] \o "=" \o PyStr(params[1][2])
         \o (IF Len(params) > 1 THEN "&" ELSE "") \o QueryString(Tail(params))

\* `if v: params[k] = v`
IfTruthy(k, v) == IF Truthy(v) THEN << <<k, v>> >> ELSE <<>>

\* endpoint += f"?{query_string}" when there is a query string
WithQuery(endpoint, params) ==
    IF QueryString(params) # "" THEN endpoint \o "?" \o QueryString(params) ELSE endpoint

\* return [TextContent(type="text", text=json.dumps(data, indent=2))]
DumpReturn(data) ==
    IF JsonSerializable(data) THEN Return(JsonText(data, 0))
    ELSE Raise(Exc("TypeError", "Object of type bytes is not JSON serializable"))

GetRequest(endpoint) == Request("GET", endpoint, PyNone, D(<<>>))
PostRequest(endpoint, payload) == Request("POST", endpoint, payload, JsonHeaders)

\* lines 804-815
sigma_list_workbooks(arguments) ==
    Get1(GetRequest("/v2/workbooks?" \o QueryString(
        << <<"limit", Get(arguments, "limit", I(50))>> >>
        \o IfTruthy("page", GetOpt(arguments, "page")))))

\* lines 817-821
sigma_get_workbook(arguments) ==
    Subscript(arguments, <<"workbook_id">>,
        Get1(GetRequest("/v2/workbooks/" \o PyStr(arguments["workbook_id"]))))

\* lines 823-837
sigma_create_workbook(arguments) ==
    Subscript(arguments, <<"name">>,
        Get1(PostRequest("/v2/workbooks",
            D(<< <<"name", arguments["name"]>>,
                 <<"description", Get(arguments, "description", S(""))>>,
                 <<"folderId", GetOpt(arguments, "folder_id")>> >>))))

\* A different rule, for comparison: the mode by the keys present.
ExportModeByPresence(arguments) ==
    IF "element_id" \in DOMAIN arguments THEN "element"
    ELSE IF "page_id" \in DOMAIN arguments THEN "page"
    ELSE "workbook"
\* lines 845-851
ExportMode(arguments) ==
    IF Truthy(GetOpt(arguments, "element_id")) THEN "element"
    ELSE IF Truthy(GetOpt(arguments, "page_id")) THEN "page"
    ELSE "workbook"

\* export_mode.title()
Title(mode) ==
    CASE mode = "element" -> "Element"
      [] mode = "page" -> "Page"
      [] OTHER -> "Workbook"

\* lines 857-870
FormatObj(arguments) ==
    LET format_type == Get(arguments, "format_type", S("pdf"))
    IN  IF format_type = S("pdf")
        THEN D(<< <<"type", S("pdf")>>,
                  <<"layout", Get(arguments, "pdf_layout", S("landscape"))>> >>)
        ELSE IF format_type = S("png")
        THEN D(<< <<"type", S("png")>> >>
               \o IfTruthy("pixelWidth", GetOpt(arguments, "png_width"))
               \o IfTruthy("pixelHeight", GetOpt(arguments, "png_height")))
        ELSE D(<< <<"type", format_type>> >>)

\* A different rule, for comparison: rowLimit and offset in every mode.
ExportPayloadWithRowsInEveryMode(arguments) ==
    LET element_id == GetOpt(arguments, "element_id")
        page_id == GetOpt(arguments, "page_id")
    IN  D(<< <<"format", FormatObj(arguments)>> >>
          \o (IF Truthy(element_id) THEN << <<"elementId", element_id>> >>
              ELSE IF Truthy(page_id) THEN << <<"pageId", page_id>> >>
              ELSE <<>>)
          \o IfTruthy("rowLimit", GetOpt(arguments, "row_limit"))
          \o IfTruthy("offset", GetOpt(arguments, "offset")))
\* lines 872-886
ExportPayload(arguments) ==
    LET element_id == GetOpt(arguments, "element_id")
        page_id == GetOpt(arguments, "page_id")
    IN  D(<< <<"format", FormatObj(arguments)>> >>
          \o (IF Truthy(element_id) THEN << <<"elementId", element_id>> >>
              ELSE IF Truthy(page_id) THEN << <<"pageId", page_id>> >>
              ELSE <<>>)
          \o (IF Truthy(element_id)
              THEN IfTruthy("rowLimit", GetOpt(arguments, "row_limit"))
                   \o IfTruthy("offset", GetOpt(arguments, "offset"))
              ELSE <<>>))

\* A different rule, for comparison: only csv is refused.
InvalidFormatCsvOnly(export_mode, format_type) ==
    export_mode \in {"page", "workbook"} /\ format_type = S("csv")
\* line 854: the format is not one a page or workbook export supports.
InvalidFormat(export_mode, format_type) ==
    export_mode \in {"page", "workbook"}
    /\ format_type \in {S("csv"), S("json"), S("jsonl")}

\* lines 839-893
sigma_export_workbook(arguments) ==
    LET format_type == Get(arguments, "format_type", S("pdf"))
        export_mode == ExportMode(arguments)
    IN  Subscript(arguments, <<"workbook_id">>,
          IF InvalidFormat(export_mode, format_type)
          THEN Refuse("Error: " \o Title(export_mode)
                      \o " exports only support pdf, png, or xlsx formats. Use element_id for "
                      \o PyStr(format_type) \o " data exports.")
          ELSE Get1(PostRequest(
                  "/v2/workbooks/" \o PyStr(arguments["workbook_id"]) \o "/export",
                  ExportPayload(arguments))))

\* A different rule, for comparison: the export goes on to fetch the file.
sigma_export_workbook_result_polling(arguments, data) ==
    IF data.ty # "dict"
    THEN Raise(Exc("AttributeError", "'" \o data.ty \o "' object has no attribute 'update'"))
    ELSE Get1(GetRequest("/v2/query/" \o PyStr(DictGet(data, "queryId", PyNone))
                         \o "/download"))
\* lines 895-899
sigma_export_workbook_result(arguments, data) ==
    IF data.ty # "dict"
    THEN Raise(Exc("AttributeError", "'" \o data.ty \o "' object has no attribute 'update'"))
    ELSE DumpReturn(DictUpdate(data,
            << <<"export_mode", S(ExportMode(arguments))>>,
               <<"format", Get(arguments, "format_type", S("pdf"))>> >>))

\* History: a download of the same export has been answered "still
\* processing" and that answer has not been delivered yet.
NotReadyPending(arguments) ==
    \E u \in Tasks :
        /\ task[u].pc = "done"
        /\ task[u].name = "sigma_download_export"
        /\ task[u].arguments = arguments
        /\ task[u].resp.status = 204

\* A different rule, for comparison: a job found not ready is remembered
\* and the next download is answered without a poll.
sigma_download_export_remembering(arguments) ==
    Subscript(arguments, <<"query_id">>,
        IF NotReadyPending(arguments)
        THEN Return("Export is still processing. Please wait a few seconds and try again.")
        ELSE Get1(GetRequest("/v2/query/" \o PyStr(arguments["query_id"]) \o "/download")))
\* lines 901-907
sigma_download_export(arguments) ==
    Subscript(arguments, <<"query_id">>,
        Get1(GetRequest("/v2/query/" \o PyStr(arguments["query_id"]) \o "/download")))

\* lines 909-930
sigma_download_export_result(data) ==
    IF data.ty # "dict"
    THEN Raise(Exc("AttributeError", "'" \o data.ty \o "' object has no attribute 'get'"))
    ELSE IF DictGet(data, "status", PyNone) = S("not_ready")
    THEN Return("Export is still processing. Please wait a few seconds and try again.")
    ELSE IF DictGet(data, "data", PyNone).ty = "str"
    THEN LET content_type == DictGet(data, "content_type", S("unknown"))
             size == DictGet(data, "size", I(0))
             content == DictGet(data, "data", PyNone)
         IN  IF content_type.ty # "str"
             THEN Raise(Exc("TypeError", "argument of type '" \o content_type.ty
                                         \o "' is not iterable"))
             ELSE IF Contains(content_type.s, "csv") \/ Contains(content_type.s, "json")
                     \/ Contains(content_type.s, "text")
             THEN Return("Content-Type: " \o content_type.s \o "\nSize: " \o PyStr(size)
                         \o " bytes\n\n" \o content.s)
             ELSE Return("Export downloaded. Content-Type: " \o content_type.s
                         \o ". Size: " \o PyStr(size) \o " bytes")
    ELSE IF DictGet(data, "data", PyNone).ty = "bytes"
    THEN Return("Export downloaded (binary). Content-Type: "
                \o PyStr(DictGet(data, "content_type", S("unknown")))
                \o ". Size: " \o PyStr(DictGet(data, "size", I(0))) \o " bytes")
    ELSE DumpReturn(data)

\* lines 932-936
sigma_list_datasets(arguments) ==
    Get1(GetRequest("/v2/datasets?limit=" \o PyStr(Get(arguments, "limit", I(50)))))

\* lines 938-942
sigma_get_dataset(arguments) ==
    Subscript(arguments, <<"dataset_id">>,
        Get1(GetRequest("/v2/datasets/" \o PyStr(arguments["dataset_id"]))))

\* lines 944-955
sigma_materialize_dataset(arguments) ==
    Subscript(arguments, <<"dataset_id">>,
        Get1(PostRequest(
            "/v2/datasets/" \o PyStr(arguments["dataset_id"]) \o "/materialize",
            D(<< <<"schedule", Get(arguments, "schedule", S("manual"))>> >>))))

\* str(v).lower() of lines 970 and 972
StrLower(v) == IF v.ty = "bool" THEN (IF v.b THEN "true" ELSE "false") ELSE PyStr(v)
IfNotNone(k, v) == IF v.ty # "none" THEN << <<k, S(StrLower(v))>> >> ELSE <<>>

\* lines 957-977
sigma_list_members(arguments) ==
    Get1(GetRequest("/v2/members?" \o QueryString(
        << <<"limit", Get(arguments, "limit", I(50))>> >>
        \o IfTruthy("page", GetOpt(arguments, "page"))
        \o IfTruthy("search", GetOpt(arguments, "search"))
        \o IfNotNone("includeArchived", GetOpt(arguments, "includeArchived"))
        \o IfNotNone("includeInactive", GetOpt(arguments, "includeInactive")))))

\* lines 979-983
sigma_get_member(arguments) ==
    Subscript(arguments, <<"member_id">>,
        Get1(GetRequest("/v2/members/" \o PyStr(arguments["member_id"]))))

\* lines 985-1000
sigma_create_member(arguments) ==
    Subscript(arguments, <<"email", "first_name", "last_name">>,
        Get1(PostRequest("/v2/members",
            D(<< <<"email", arguments["email"]>>,
                 <<"firstName", arguments["first_name"]>>,
                 <<"lastName", arguments["last_name"]>>,
                 <<"accountType", Get(arguments, "account_type", S("viewer"))>> >>))))

\* lines 1002-1014
sigma_list_member_teams(arguments) ==
    Subscript(arguments, <<"member_id">>,
        Get1(GetRequest("/v2/members/" \o PyStr(arguments["member_id"]) \o "/teams?"
            \o QueryString(<< <<"limit", Get(arguments, "limit", I(50))>> >>
                           \o IfTruthy("page", GetOpt(arguments, "page"))))))

\* lines 1016-1036
sigma_list_teams(arguments) ==
    Get1(GetRequest("/v2.1/teams?" \o QueryString(
        << <<"limit", Get(arguments, "limit", I(50))>> >>
        \o IfTruthy("page", GetOpt(arguments, "page"))
        \o IfTruthy("name", GetOpt(arguments, "name"))
        \o IfTruthy("description", GetOpt(arguments, "description"))
        \o IfTruthy("visibility", GetOpt(arguments, "visibility")))))

\* A different rule, for comparison: every id the grant supplies is sent.
GranteeWithEveryId(grant) ==
    D(IfTruthy("memberId", GetOpt(grant, "member_id"))
      \o IfTruthy("teamId", GetOpt(grant, "team_id")))
\* lines 1045-1067: one grant of the input as the API's grant object, or
\* the exit the loop body takes for it.
Grantee(grant) ==
    IF Truthy(GetOpt(grant, "member_id")) THEN D(<< <<"memberId", grant["member_id"]>> >>)
    ELSE IF Truthy(GetOpt(grant, "team_id")) THEN D(<< <<"teamId", grant["team_id"]>> >>)
    ELSE D(<<>>)

GrantObj(grant) ==
    D(<< <<"grantee", Grantee(grant)>>, <<"permission", grant["permission"]>> >>
      \o IfTruthy("tagId", GetOpt(grant, "tag_id")))

NoGranteeText ==
    JsonText(D(<< <<"error", S("Each grant must specify either member_id or team_id")>> >>), 0)

\* lines 1043-1067: the loop over grants_input, from grant i on.
RECURSIVE GrantsPayload(_, _, _)
GrantsPayload(grants_input, i, grants_payload) ==
    IF i > Len(grants_input) THEN [kind |-> "payload", items |-> grants_payload]
    ELSE IF "permission" \notin DOMAIN grants_input[i] THEN Raise(KeyError("permission"))
    ELSE IF Grantee(grants_input[i]) = D(<<>>) THEN Refuse(NoGranteeText)
    ELSE GrantsPayload(grants_input, i + 1, Append(grants_payload, GrantObj(grants_input[i])))

\* A different rule, for comparison: the grants without grantee are left
\* out and the others are sent.
sigma_grant_permissions_skipping(arguments) ==
    Subscript(arguments, <<"workbook_id", "grants">>,
        LET grants_input == arguments["grants"].items
            named == SelectSeq(grants_input, LAMBDA g : Grantee(g) # D(<<>>))
        IN  IF \E i \in 1..Len(grants_input) : "permission" \notin DOMAIN grants_input[i]
            THEN Raise(KeyError("permission"))
            ELSE Get1(PostRequest(
                    "/v2/workbooks/" \o PyStr(arguments["workbook_id"]) \o "/grants",
                    D(<< <<"grants", L([i \in 1..Len(named) |-> GrantObj(named[i])])>> >>))))
\* lines 1038-1076
sigma_grant_permissions(arguments) ==
    Subscript(arguments, <<"workbook_id", "grants">>,
        LET loop == GrantsPayload(arguments["grants"].items, 1, <<>>)
        IN  IF loop.kind # "payload" THEN loop
            ELSE Get1(PostRequest(
                    "/v2/workbooks/" \o PyStr(arguments["workbook_id"]) \o "/grants",
                    D(<< <<"grants", L(loop.items)>> >>))))

\* lines 1078-1086
sigma_grant_permissions_result(arguments) ==
    LET loop == GrantsPayload(arguments["grants"].items, 1, <<>>)
    IN  DumpReturn(D(<< <<"success", B(TRUE)>>,
                        <<"workbook_id", arguments["workbook_id"]>>,
                        <<"grants_applied", I(Len(loop.items))>>,
                        <<"details", L(loop.items)>> >>))

\* lines 1089-1111
sigma_list_grants(arguments) ==
    Send(GetRequest("/v2/grants?" \o QueryString(
            (IF Truthy(GetOpt(arguments, "workbook_id"))
             THEN << <<"inodeId", arguments["workbook_id"]>> >>
             ELSE IF Truthy(GetOpt(arguments, "user_id"))
             THEN << <<"userId", arguments["user_id"]>> >>
             ELSE IF Truthy(GetOpt(arguments, "team_id"))
             THEN << <<"teamId", arguments["team_id"]>> >>
             ELSE <<>>)
            \o << <<"limit", Get(arguments, "limit", I(100))>> >>
            \o IfTruthy("page", GetOpt(arguments, "page"))
            \o (IF Truthy(GetOpt(arguments, "direct_grants_only"))
                THEN << <<"directGrantsOnly", S("true")>> >> ELSE <<>>))),
         "grants", NoLocals)

\* `"entries" in data` (line 1114): a key of a dict, an element of a list.
HasEntries(data) ==
    IF data.ty = "dict" THEN DictHas(data, "entries")
    ELSE \E i \in 1..Len(data.items) : data.items[i] = S("entries")

\* lines 1116-1123
Entries(data) == DictGet(data, "entries", L(<<>>)).items
member_ids(data) ==
    {DictGet(Entries(data)[i], "memberId", PyNone) :
        i \in {j \in 1..Len(Entries(data)) :
                  Truthy(DictGet(Entries(data)[j], "memberId", PyNone))}}
team_ids(data) ==
    {DictGet(Entries(data)[i], "teamId", PyNone) :
        i \in {j \in 1..Len(Entries(data)) :
                  /\ ~Truthy(DictGet(Entries(data)[j], "memberId", PyNone))
                  /\ Truthy(DictGet(Entries(data)[j], "teamId", PyNone))}}

\* lines 1133-1138: f"{first} {last} ({email})".strip(), replaced by the
\* email when it starts with "(" (first and last hold no blank of their own)
MemberName(member) ==
    LET email == PyStr(DictGet(member, "email", S("")))
        first == PyStr(DictGet(member, "firstName", S("")))
        last == PyStr(DictGet(member, "lastName", S("")))
        name == IF first # "" THEN first \o " " \o last \o " (" \o email \o ")"
                ELSE IF last # "" THEN last \o " (" \o email \o ")"
                ELSE "(" \o email \o ")"
    IN  IF StartsWith(name, "(") THEN email ELSE name

\* lines 1126-1141: member_names after the members fetch gave `out`.
RECURSIVE MemberNames(_, _, _, _)
MemberNames(members, i, ids, names) ==
    IF i > Len(members) THEN names
    ELSE LET mid == DictGet(members[i], "memberId", PyNone)
         IN  MemberNames(members, i + 1, ids,
                IF mid \in ids
                THEN [m \in DOMAIN names \cup {mid} |->
                        IF m = mid THEN MemberName(members[i]) ELSE names[m]]
                ELSE names)
member_names(out, ids) ==
    IF out.ok /\ out.data.ty = "dict"
    THEN MemberNames(DictGet(out.data, "entries", L(<<>>)).items, 1, ids, <<>>)
    ELSE <<>>

\* lines 1144-1153: team_names after the teams fetch gave `out`.
RECURSIVE TeamNames(_, _, _, _)
TeamNames(teams, i, ids, names) ==
    IF i > Len(teams) THEN names
    ELSE LET tid == DictGet(teams[i], "teamId", PyNone)
         IN  TeamNames(teams, i + 1, ids,
                IF tid \in ids
                THEN [m \in DOMAIN names \cup {tid} |->
                        IF m = tid THEN PyStr(DictGet(teams[i], "name", S("Unknown")))
                        ELSE names[m]]
                ELSE names)
team_names(out, ids) ==
    IF out.ok /\ out.data.ty = "dict"
    THEN TeamNames(DictGet(out.data, "entries", L(<<>>)).items, 1, ids, <<>>)
    ELSE <<>>

\* lines 1155-1168: each grant with its resolved name.
EnhancedGrant(grant, mnames, tnames) ==
    IF Truthy(DictGet(grant, "memberId", PyNone))
    THEN DictSet(grant, "memberName",
            LET mid == DictGet(grant, "memberId", PyNone)
            IN  S(IF mid \in DOMAIN mnames THEN mnames[mid]
                  ELSE "Unknown (member not found)"))
    ELSE IF Truthy(DictGet(grant, "teamId", PyNone))
    THEN DictSet(grant, "teamName",
            LET tid == DictGet(grant, "teamId", PyNone)
            IN  S(IF tid \in DOMAIN tnames THEN tnames[tid]
                  ELSE "Unknown (possibly All Members or system team)"))
    ELSE grant
Enhanced(data, mnames, tnames) ==
    DictSet(data, "entries",
        L([i \in 1..Len(Entries(data)) |-> EnhancedGrant(Entries(data)[i], mnames, tnames)]))

MembersRequest == GetRequest("/v2/members?limit=1000")
TeamsRequest == GetRequest("/v2.1/teams?limit=1000")

\* A different rule, for comparison: both lists are fetched for every
\* grant list.
sigma_list_grants_result_fetching_all(step, locals, out) ==
    IF step = "grants"
    THEN IF ~out.ok THEN Raise(out.exc)
         ELSE IF ~HasEntries(out.data) THEN DumpReturn(out.data)
         ELSE Send(MembersRequest, "members", [data |-> out.data, member_names |-> <<>>])
    ELSE IF step = "members"
    THEN Send(TeamsRequest, "teams",
              [data |-> locals.data,
               member_names |-> member_names(out, member_ids(locals.data))])
    ELSE DumpReturn(Enhanced(locals.data, locals.member_names,
                             team_names(out, team_ids(locals.data))))
\* A different rule, for comparison: a failed secondary fetch fails the call.
sigma_list_grants_result_strict(step, locals, out) ==
    IF ~out.ok THEN Raise(out.exc)
    ELSE IF step = "grants"
    THEN IF ~HasEntries(out.data) THEN DumpReturn(out.data)
         ELSE IF member_ids(out.data) # {}
         THEN Send(MembersRequest, "members", [data |-> out.data, member_names |-> <<>>])
         ELSE IF team_ids(out.data) # {}
         THEN Send(TeamsRequest, "teams", [data |-> out.data, member_names |-> <<>>])
         ELSE DumpReturn(Enhanced(out.data, <<>>, <<>>))
    ELSE IF step = "members"
    THEN IF team_ids(locals.data) # {}
         THEN Send(TeamsRequest, "teams",
                   [data |-> locals.data,
                    member_names |-> member_names(out, member_ids(locals.data))])
         ELSE DumpReturn(Enhanced(locals.data,
                                  member_names(out, member_ids(locals.data)), <<>>))
    ELSE DumpReturn(Enhanced(locals.data, locals.member_names,
                             team_names(out, team_ids(locals.data))))
\* lines 1113-1170: sigma_list_grants after the await at `step` gave `out`.
sigma_list_grants_result(step, locals, out) ==
    IF step = "grants"
    THEN IF ~out.ok THEN Raise(out.exc)
         ELSE IF ~HasEntries(out.data) THEN DumpReturn(out.data)
         ELSE IF member_ids(out.data) # {}
         THEN Send(MembersRequest, "members", [data |-> out.data, member_names |-> <<>>])
         ELSE IF team_ids(out.data) # {}
         THEN Send(TeamsRequest, "teams", [data |-> out.data, member_names |-> <<>>])
         ELSE DumpReturn(Enhanced(out.data, <<>>, <<>>))
    ELSE IF step = "members"
    THEN IF team_ids(locals.data) # {}
         THEN Send(TeamsRequest, "teams",
                   [data |-> locals.data,
                    member_names |-> member_names(out, member_ids(locals.data))])
         ELSE DumpReturn(Enhanced(locals.data,
                                  member_names(out, member_ids(locals.data)), <<>>))
    ELSE DumpReturn(Enhanced(locals.data, locals.member_names,
                             team_names(out, team_ids(locals.data))))

\* lines 1172-1183
sigma_list_account_types(arguments) ==
    Get1(GetRequest("/v2/accountTypes?" \o QueryString(
        << <<"pageSize", Get(arguments, "page_size", I(50))>> >>
        \o IfTruthy("pageToken", GetOpt(arguments, "page_token")))))

\* lines 1185-1189
sigma_get_account_type_permissions(arguments) ==
    Subscript(arguments, <<"account_type_id">>,
        Get1(GetRequest("/v2/accountTypes/" \o PyStr(arguments["account_type_id"])
                        \o "/permissions")))

LimitPage(arguments) ==
    IfTruthy("limit", GetOpt(arguments, "limit"))
    \o IfTruthy("page", GetOpt(arguments, "page"))
LimitPageTagBookmark(arguments) ==
    LimitPage(arguments)
    \o IfTruthy("tag", GetOpt(arguments, "tag"))
    \o IfTruthy("bookmarkId", GetOpt(arguments, "bookmark_id"))

\* lines 1191-1209
sigma_list_workbook_tags(arguments) ==
    Subscript(arguments, <<"workbook_id">>,
        Get1(GetRequest(WithQuery(
            "/v2/workbooks/" \o PyStr(arguments["workbook_id"]) \o "/tags",
            LimitPage(arguments)))))

\* lines 1211-1229
sigma_list_workbooks_by_tag(arguments) ==
    Subscript(arguments, <<"tag_id">>,
        Get1(GetRequest(WithQuery(
            "/v2/tags/" \o PyStr(arguments["tag_id"]) \o "/workbooks",
            LimitPage(arguments)))))

\* lines 1231-1251
sigma_list_tags(arguments) ==
    Get1(GetRequest(WithQuery("/v2/tags",
        LimitPage(arguments) \o IfTruthy("search", GetOpt(arguments, "search")))))

\* lines 1253-1277
sigma_list_workbook_pages(arguments) ==
    Subscript(arguments, <<"workbook_id">>,
        Get1(GetRequest(WithQuery(
            "/v2/workbooks/" \o PyStr(arguments["workbook_id"]) \o "/pages",
            LimitPageTagBookmark(arguments)))))

\* lines 1279-1304
sigma_list_page_elements(arguments) ==
    Subscript(arguments, <<"workbook_id", "page_id">>,
        Get1(GetRequest(WithQuery(
            "/v2/workbooks/" \o PyStr(arguments["workbook_id"]) \o "/pages/"
                \o PyStr(arguments["page_id"]) \o "/elements",
            LimitPageTagBookmark(arguments)))))

\* lines 1306-1325
sigma_get_element_query(arguments) ==
    Subscript(arguments, <<"workbook_id", "element_id">>,
        Get1(GetRequest(WithQuery(
            "/v2/workbooks/" \o PyStr(arguments["workbook_id"]) \o "/elements/"
                \o PyStr(arguments["element_id"]) \o "/query",
            LimitPage(arguments)))))

\* lines 1327-1334
sigma_get_element_lineage(arguments) ==
    Subscript(arguments, <<"workbook_id", "element_id">>,
        Get1(GetRequest("/v2/workbooks/" \o PyStr(arguments["workbook_id"])
                        \o "/lineage/elements/" \o PyStr(arguments["element_id"]))))

\* lines 1336-1355
sigma_list_element_columns(arguments) ==
    Subscript(arguments, <<"workbook_id", "element_id">>,
        Get1(GetRequest(WithQuery(
            "/v2/workbooks/" \o PyStr(arguments["workbook_id"]) \o "/elements/"
                \o PyStr(arguments["element_id"]) \o "/columns",
            LimitPage(arguments)))))

(***************************************************************************)
(* handle_call_tool: dispatch and the enclosing try/except.                *)
(***************************************************************************)
\* lines 804-1358: the branch of tool `name`, up to its first await.
Branch(name, arguments) ==
    CASE name = "sigma_list_workbooks" -> sigma_list_workbooks(arguments)
      [] name = "sigma_get_workbook" -> sigma_get_workbook(arguments)
      [] name = "sigma_create_workbook" -> sigma_create_workbook(arguments)
      [] name = "sigma_export_workbook" -> sigma_export_workbook(arguments)
      [] name = "sigma_download_export" -> sigma_download_export(arguments)
      [] name = "sigma_list_datasets" -> sigma_list_datasets(arguments)
      [] name = "sigma_get_dataset" -> sigma_get_dataset(arguments)
      [] name = "sigma_materialize_dataset" -> sigma_materialize_dataset(arguments)
      [] name = "sigma_list_members" -> sigma_list_members(arguments)
      [] name = "sigma_get_member" -> sigma_get_member(arguments)
      [] name = "sigma_create_member" -> sigma_create_member(arguments)
      [] name = "sigma_list_member_teams" -> sigma_list_member_teams(arguments)
      [] name = "sigma_list_teams" -> sigma_list_teams(arguments)
      [] name = "sigma_grant_permissions" -> sigma_grant_permissions(arguments)
      [] name = "sigma_list_grants" -> sigma_list_grants(arguments)
      [] name = "sigma_list_account_types" -> sigma_list_account_types(arguments)
      [] name = "sigma_get_account_type_permissions" ->
            sigma_get_account_type_permissions(arguments)
      [] name = "sigma_list_workbook_tags" -> sigma_list_workbook_tags(arguments)
      [] name = "sigma_list_workbooks_by_tag" -> sigma_list_workbooks_by_tag(arguments)
      [] name = "sigma_list_tags" -> sigma_list_tags(arguments)
      [] name = "sigma_list_workbook_pages" -> sigma_list_workbook_pages(arguments)
      [] name = "sigma_list_page_elements" -> sigma_list_page_elements(arguments)
      [] name = "sigma_get_element_query" -> sigma_get_element_query(arguments)
      [] name = "sigma_get_element_lineage" -> sigma_get_element_lineage(arguments)
      [] name = "sigma_list_element_columns" -> sigma_list_element_columns(arguments)
      [] OTHER -> Raise(Exc("ValueError", "Unknown tool: " \o name))

\* The branch of tool `name` after the await at `step` gave `out`: the data
\* make_request returned, or the exception it raised.
Resume(name, arguments, step, locals, out) ==
    IF name = "sigma_list_grants" THEN sigma_list_grants_result(step, locals, out)
    ELSE IF ~out.ok THEN Raise(out.exc)
    ELSE CASE name = "sigma_export_workbook" ->
                sigma_export_workbook_result(arguments, out.data)
           [] name = "sigma_download_export" -> sigma_download_export_result(out.data)
           [] name = "sigma_grant_permissions" -> sigma_grant_permissions_result(arguments)
           [] OTHER -> DumpReturn(out.data)

\* line 1360: `except Exception` catches every exception the branches and
\* make_request raise.
ExceptionTypes ==
    {"KeyError", "ValueError", "TypeError", "AttributeError", "HTTPStatusError"}
\* A different rule, for comparison: `except httpx.HTTPStatusError`.
CatchesHttpErrorsOnly(exc) == exc.type = "HTTPStatusError"
Catches(exc) == exc.type \in ExceptionTypes

\* A different rule, for comparison: the error text without str(e).
HandledWithoutMessage(eff) ==
    IF eff.kind # "raise" THEN eff
    ELSE IF Catches(eff.exc) THEN Refuse("Error: tool call failed")
    ELSE Escape(eff.exc)
\* lines 1360-1362
Handled(eff) ==
    IF eff.kind # "raise" THEN eff
    ELSE IF Catches(eff.exc) THEN Refuse("Error: " \o eff.exc.msg)
    ELSE Escape(eff.exc)

\* A different rule, for comparison: a call is refused while the error of
\* another call is waiting to be delivered.
BeginRememberingFailure(name, arguments) ==
    IF ~Truthy(sigma_api) THEN Escape(Exc("RuntimeError", "Sigma API not initialized"))
    ELSE IF \E u \in DOMAIN task : task[u].pc = "done" /\ task[u].result.failed
         THEN Refuse("Error: an earlier call failed")
         ELSE Handled(Branch(name, arguments))
\* lines 800-803: handle_call_tool up to its first await.
Begin(name, arguments) ==
    IF ~Truthy(sigma_api) THEN Escape(Exc("RuntimeError", "Sigma API not initialized"))
    ELSE Handled(Branch(name, arguments))

(***************************************************************************)
(* The coroutines.                                                         *)
(***************************************************************************)
TextContent(text) == [type |-> "text", text |-> text]
NoResult == [raised |-> FALSE, failed |-> FALSE, blocks |-> <<>>]

\* History of a get_access_token call: what held when it began.
TokenAge == IF stored_at.ty = "none" THEN 0 ELSE now - stored_at.t
GatStart ==
    [fresh |-> access_token.ty # "none" /\ stored_at.ty # "none"
               /\ TokenAge < TokenTtlMinutes,
     cached |-> access_token,
     cache |-> <<access_token, token_expires_at>>]
NoGatStart == [fresh |-> FALSE, cached |-> PyNone, cache |-> <<PyNone, PyNone>>]

\* History of a get_access_token call that ended.
GatEnd(caller, start, exchanged, ok, token, age) ==
    [caller |-> caller, fresh |-> start.fresh, cached |-> start.cached,
     cache |-> start.cache, exchanged |-> exchanged, ok |-> ok, token |-> token,
     age |-> age]

\* History of a make_request call that ended.
NoResponse == Response(0, PyNone, EmptyBody)
MrEnd(caller, req, resp, sends, out) ==
    [caller |-> caller, req |-> req, resp |-> resp, sends |-> sends,
     classified |-> out.ok, raised |-> ~out.ok,
     result |-> IF out.ok THEN out.data ELSE PyNone]
NoMr == [caller |-> 0, req |-> NoRequest, resp |-> NoResponse, sends |-> 0,
         classified |-> FALSE, raised |-> FALSE, result |-> PyNone]

IdleTask ==
    [pc |-> "idle", name |-> "", arguments |-> <<>>, step |-> "", locals |-> NoLocals,
     req |-> NoRequest, result |-> NoResult, gat |-> NoGatStart,
     posts |-> 0,      \* history: token exchanges posted in this tool call
     sent |-> <<>>,    \* history: API requests sent in this tool call
     mrSends |-> 0,    \* history: API requests sent in this make_request call
     after_failure |-> FALSE,  \* history: a token exchange had failed before
     after_not_ready |-> FALSE,  \* history: a poll had found it not ready
     resp |-> NoResponse]  \* history: the answer to its last API request

\* lines 82-88: make_request(req) called by task t in state tk, up to its
\* first network await: the API request when the cached token is returned,
\* the token exchange otherwise.  Gives the task and the get_access_token
\* calls that ended.
Launch(t, tk, req) ==
    IF CacheHit
    THEN [task |-> [tk EXCEPT !.pc = "api",
                              !.req = WithAuth(req, access_token),
                              !.sent = Append(@, WithAuth(req, access_token)),
                              !.mrSends = 1],
          gat |-> << GatEnd(t, GatStart, 0, TRUE, access_token, TokenAge) >>]
    ELSE [task |-> [tk EXCEPT !.pc = "token", !.req = req, !.gat = GatStart,
                              !.posts = @ + 1, !.mrSends = 0],
          gat |-> <<>>]

\* The coroutine of task t after its branch ran to `eff`.
Proceed(t, tk, eff) ==
    CASE eff.kind = "send" ->
            Launch(t, [tk EXCEPT !.step = eff.step, !.locals = eff.locals], eff.req)
      [] eff.kind = "return" ->
            [task |-> [tk EXCEPT !.pc = "done",
                                 !.result = [raised |-> FALSE, failed |-> eff.failure,
                                             blocks |-> << TextContent(eff.text) >>]],
             gat |-> <<>>]
      [] OTHER ->
            [task |-> [tk EXCEPT !.pc = "done",
                                 !.result = [raised |-> TRUE, failed |-> TRUE,
                                             blocks |-> <<>>]],
             gat |-> <<>>]

Init ==
    /\ env \in [client_id : {PyNone, S(""), S("id")},
                client_secret : {PyNone, S(""), S("secret")}]
    /\ sigma_api = PyNone
    /\ access_token = PyNone
    /\ token_expires_at = PyNone
    /\ now = 0
    /\ main_pc = "start"
    /\ task = [t \in Tasks |-> IdleTask]
    /\ stored_at = PyNone
    /\ main_gat = NoGatStart
    /\ gatLog = <<>>
    /\ mrLog = NoMr

\* A different rule, for comparison: only an unset variable is missing.
CredentialsMissingWhenUnset == env.client_id = PyNone \/ env.client_secret = PyNone
\* line 115: `if not client_id or not client_secret`
CredentialsMissing == ~Truthy(env.client_id) \/ ~Truthy(env.client_secret)

\* lines 1473-1490, 107-118 and 1369-1370 (1398-1399): main() creates the
\* client and awaits the pre-flight token exchange, or exits when a
\* credential is missing.  The bodies of run_stdio_server (lines 1367-1390)
\* and of test_connection (lines 1399-1403) are read with the block
\* structure their statements show: try / await / except / log / raise,
\* then the transport.  As indented in the file, line 1369 and line 1401
\* are syntax errors and the interpreter rejects the module before main()
\* runs: then nothing below happens at all.
Main ==
    /\ main_pc = "start"
    /\ IF CredentialsMissing
       THEN /\ main_pc' = "exited"
            /\ UNCHANGED <<sigma_api, main_gat>>
       ELSE /\ sigma_api' = PyObject("SigmaAPI")
            /\ main_gat' = GatStart
            /\ main_pc' = "preflight"
    /\ gatLog' = <<>>
    /\ mrLog' = NoMr
    /\ UNCHANGED <<env, access_token, token_expires_at, now, task, stored_at>>

\* A different rule, for comparison: the failure is logged and not raised.
AfterPreflightLogOnly(out) == "serving"
\* lines 1371-1376 (1400-1405) and 1488-1490: the exception is raised
\* again and main() exits.
AfterPreflight(out) == IF out.ok THEN "serving" ELSE "exited"

\* lines 71-78 and 1371-1376 (1400-1405): the pre-flight exchange answers;
\* the server serves on success and main() exits on failure.
PreflightResponse(resp) ==
    /\ main_pc = "preflight"
    /\ LET out == TokenExchange(resp)
       IN  /\ access_token' = CacheAfterExchange(out)[1]
           /\ token_expires_at' = CacheAfterExchange(out)[2]
           /\ stored_at' = IF out.ok THEN DateTime(now) ELSE stored_at
           /\ main_pc' = AfterPreflight(out)
           /\ gatLog' = << GatEnd(0, main_gat, 1, out.ok,
                                  IF out.ok THEN out.token ELSE PyNone, 0) >>
    /\ mrLog' = NoMr
    /\ UNCHANGED <<env, sigma_api, now, task, main_gat>>

\* History: the last make_request of a call ended with a failed token
\* exchange and the call's error has not been delivered yet.
ExchangeFailurePending ==
    \E u \in Tasks : task[u].pc = "done" /\ task[u].posts > 0 /\ task[u].mrSends = 0

NoHistory == [after_failure |-> FALSE, after_not_ready |-> FALSE]
History(arguments) ==
    [after_failure |-> ExchangeFailurePending,
     after_not_ready |-> NotReadyPending(arguments)]

\* lines 798-803 and the branch: the transport calls handle_call_tool;
\* `history` is what the call's history fields record of the other calls.
CallToolWith(t, name, arguments, history) ==
    /\ main_pc = "serving"
    /\ task[t].pc = "idle"
    /\ LET tk == [IdleTask EXCEPT !.name = name, !.arguments = arguments,
                                  !.after_failure = history.after_failure,
                                  !.after_not_ready = history.after_not_ready]
           r == Proceed(t, tk, Begin(name, arguments))
       IN  /\ task' = [task EXCEPT ![t] = r.task]
           /\ gatLog' = r.gat
    /\ mrLog' = NoMr
    /\ UNCHANGED <<env, sigma_api, access_token, token_expires_at, now, main_pc,
                   stored_at, main_gat>>

CallTool(t, name, arguments) == CallToolWith(t, name, arguments, NoHistory)
CallToolTracked(t, name, arguments) ==
    CallToolWith(t, name, arguments, History(arguments))

\* A different rule, for comparison: a failed exchange is fatal mid-run as
\* it is at startup.
AfterExchangeFatal(out) == IF out.ok THEN "serving" ELSE "exited"
\* lines 1360-1362: the exception of a failed exchange is caught with the
\* others and the process goes on serving.
AfterExchange(out) == "serving"

\* lines 71-78, then 83-88: the token exchange of task t answers.  On
\* success the token is stored and the API request is sent; on failure the
\* exception reaches the tool branch.
TokenResponse(t, resp) ==
    /\ task[t].pc = "token"
    /\ LET tk == task[t]
           out == TokenExchange(resp)
           r == IF out.ok
                THEN [task |-> [tk EXCEPT !.pc = "api",
                                          !.req = WithAuth(tk.req, out.token),
                                          !.sent = Append(@, WithAuth(tk.req, out.token)),
                                          !.mrSends = 1],
                      gat |-> <<>>]
                ELSE Proceed(t, tk, Handled(Resume(tk.name, tk.arguments, tk.step,
                                                   tk.locals, out)))
       IN  /\ access_token' = CacheAfterExchange(out)[1]
           /\ token_expires_at' = CacheAfterExchange(out)[2]
           /\ stored_at' = IF out.ok THEN DateTime(now) ELSE stored_at
           /\ task' = [task EXCEPT ![t] = r.task]
           /\ gatLog' = << GatEnd(t, tk.gat, 1, out.ok,
                                  IF out.ok THEN out.token ELSE PyNone, 0) >> \o r.gat
           /\ mrLog' = IF out.ok THEN NoMr ELSE MrEnd(t, tk.req, NoResponse, tk.mrSends, out)
           /\ main_pc' = AfterExchange(out)
    /\ UNCHANGED <<env, sigma_api, now, main_gat>>

\* lines 88-101, then the branch: the API request of task t answers.
ApiResponse(t, resp) ==
    /\ task[t].pc = "api"
    /\ LET tk == [task[t] EXCEPT !.resp = resp]
           out == Received(tk.req, resp)
           r == Proceed(t, tk, Handled(Resume(tk.name, tk.arguments, tk.step,
                                              tk.locals, out)))
       IN  /\ task' = [task EXCEPT ![t] = r.task]
           /\ gatLog' = r.gat
           /\ mrLog' = MrEnd(t, tk.req, resp, tk.mrSends, out)
    /\ UNCHANGED <<env, sigma_api, access_token, token_expires_at, now, main_pc,
                   stored_at, main_gat>>

\* The transport sends the result of task t to the caller.
Deliver(t) ==
    /\ task[t].pc = "done"
    /\ task' = [task EXCEPT ![t] = IdleTask]
    /\ gatLog' = <<>>
    /\ mrLog' = NoMr
    /\ UNCHANGED <<env, sigma_api, access_token, token_expires_at, now, main_pc,
                   stored_at, main_gat>>

\* Time passes.
Tick(d) ==
    /\ main_pc \in {"preflight", "serving"}
    /\ now + d <= MaxTime
    /\ now' = now + d
    /\ gatLog' = <<>>
    /\ mrLog' = NoMr
    /\ UNCHANGED <<env, sigma_api, access_token, token_expires_at, main_pc, task,
                   stored_at, main_gat>>

(***************************************************************************)
(* The inputs: what callers pass and what the platform answers.            *)
(***************************************************************************)
\* The argument mappings that give some of the keys of `spec` a value of
\* the key's set.
RECURSIVE ArgsFrom(_, _)
ArgsFrom(spec, keys) ==
    IF keys = {} THEN { <<>> }
    ELSE LET k == CHOOSE k \in keys : TRUE
             rest == ArgsFrom(spec, keys \ {k})
         IN  rest \cup { (k :> v) @@ f : f \in rest, v \in spec[k] }
ArgsOver(spec) == ArgsFrom(spec, DOMAIN spec)

\* The grants a caller passes to sigma_grant_permissions.
GrantInputs ==
    { [member_id |-> S("m1"), permission |-> S("view")],
      [team_id |-> S("t1"), permission |-> S("edit"), tag_id |-> S("tag1")],
      [member_id |-> S("m1"), team_id |-> S("t1"), permission |-> S("view")],
      [member_id |-> S(""), permission |-> S("view")],
      [member_id |-> S("m1")] }
GrantLists == UNION { [1..n -> GrantInputs] : n \in 0..MaxGrants }

ToolNames ==
    {"sigma_list_workbooks", "sigma_get_workbook", "sigma_create_workbook",
     "sigma_export_workbook", "sigma_download_export", "sigma_list_datasets",
     "sigma_get_dataset", "sigma_materialize_dataset", "sigma_list_members",
     "sigma_get_member", "sigma_create_member", "sigma_list_member_teams",
     "sigma_list_teams", "sigma_grant_permissions", "sigma_list_grants",
     "sigma_list_account_types", "sigma_get_account_type_permissions",
     "sigma_list_workbook_tags", "sigma_list_workbooks_by_tag", "sigma_list_tags",
     "sigma_list_workbook_pages", "sigma_list_page_elements",
     "sigma_get_element_query", "sigma_get_element_lineage",
     "sigma_list_element_columns"}

\* lines 185-795: the "required" list of each tool's input schema.
Required(name) ==
    CASE name \in {"sigma_get_workbook", "sigma_export_workbook",
                   "sigma_list_workbook_tags", "sigma_list_workbook_pages"} ->
            {"workbook_id"}
      [] name = "sigma_create_workbook" -> {"name"}
      [] name = "sigma_download_export" -> {"query_id"}
      [] name \in {"sigma_get_dataset", "sigma_materialize_dataset"} -> {"dataset_id"}
      [] name \in {"sigma_get_member", "sigma_list_member_teams"} -> {"member_id"}
      [] name = "sigma_create_member" -> {"email", "first_name", "last_name"}
      [] name = "sigma_grant_permissions" -> {"workbook_id", "grants"}
      [] name = "sigma_get_account_type_permissions" -> {"account_type_id"}
      [] name = "sigma_list_workbooks_by_tag" -> {"tag_id"}
      [] name = "sigma_list_page_elements" -> {"workbook_id", "page_id"}
      [] name \in {"sigma_get_element_query", "sigma_get_element_lineage",
                   "sigma_list_element_columns"} -> {"workbook_id", "element_id"}
      [] OTHER -> {}

\* The argument mappings tried for each tool.
ToolArgs(name) ==
    CASE name = "sigma_list_workbooks" ->
            ArgsOver([limit |-> {I(10)}, page |-> {S("p2")}])
      [] name = "sigma_get_workbook" -> ArgsOver([workbook_id |-> {S("wb1")}])
      [] name = "sigma_create_workbook" ->
            ArgsOver([name |-> {S("Q1 Report")}, folder_id |-> {S("f1")}])
      [] name = "sigma_export_workbook" ->
            ArgsOver([workbook_id |-> {S("wb1")},
                      element_id |-> {S("el1"), S("")},
                      page_id |-> {S("pg1"), S("")},
                      format_type |-> {S("png"), S("csv")},
                      row_limit |-> {I(100)},
                      offset |-> {I(0), I(50)}])
      [] name = "sigma_download_export" -> ArgsOver([query_id |-> {S("q1")}])
      [] name = "sigma_list_datasets" -> ArgsOver([limit |-> {I(10)}, page |-> {S("p2")}])
      [] name = "sigma_get_dataset" -> ArgsOver([dataset_id |-> {S("ds1")}])
      [] name = "sigma_materialize_dataset" -> ArgsOver([dataset_id |-> {S("ds1")}])
      [] name = "sigma_list_members" ->
            ArgsOver([page |-> {S("p2")}, includeArchived |-> {B(TRUE)}])
      [] name = "sigma_get_member" -> ArgsOver([member_id |-> {S("m1")}])
      [] name = "sigma_create_member" ->
            ArgsOver([email |-> {S("a@b.c")}, first_name |-> {S("Ann")},
                      last_name |-> {S("Lee")}])
      [] name = "sigma_list_member_teams" ->
            ArgsOver([member_id |-> {S("m1")}, page |-> {S("p2")}])
      [] name = "sigma_list_teams" ->
            ArgsOver([page |-> {S("p2")}, name |-> {S("ops")}])
      [] name = "sigma_grant_permissions" ->
            ArgsOver([workbook_id |-> {S("wb1")}, grants |-> {L(g) : g \in GrantLists}])
      [] name = "sigma_list_grants" ->
            ArgsOver([workbook_id |-> {S("wb1")}, page |-> {S("p2")}])
      [] name = "sigma_list_account_types" ->
            ArgsOver([page |-> {S("p2")}, page_token |-> {S("p2")}])
      [] name = "sigma_get_account_type_permissions" ->
            ArgsOver([account_type_id |-> {S("at1")}])
      [] name = "sigma_list_workbook_tags" ->
            ArgsOver([workbook_id |-> {S("wb1")}, page |-> {S("p2")}])
      [] name = "sigma_list_workbooks_by_tag" ->
            ArgsOver([tag_id |-> {S("tag1")}, page |-> {S("p2")}])
      [] name = "sigma_list_tags" -> ArgsOver([limit |-> {I(10)}, page |-> {S("p2")}])
      [] name = "sigma_list_workbook_pages" ->
            ArgsOver([workbook_id |-> {S("wb1")}, page |-> {S("p2")}])
      [] name = "sigma_list_page_elements" ->
            ArgsOver([workbook_id |-> {S("wb1")}, page_id |-> {S("pg1")},
                      page |-> {S("p2")}])
      [] name = "sigma_get_element_query" ->
            ArgsOver([workbook_id |-> {S("wb1")}, element_id |-> {S("el1")}])
      [] name = "sigma_get_element_lineage" ->
            ArgsOver([workbook_id |-> {S("wb1")}, element_id |-> {S("el1")}])
      [] name = "sigma_list_element_columns" ->
            ArgsOver([workbook_id |-> {S("wb1")}, element_id |-> {S("el1")},
                      page |-> {S("p2")}])
      [] OTHER -> {<<>>}

UnknownToolNames == {"sigma_delete_workbook"}

\* The tokens the platform issues, and its answers to the token exchange.
Tokens == {"tokA", "tokB"}
JsonType == S("application/json")
TokenResponses ==
    { Response(200, JsonType,
               Body("token", 40, 40, D(<< <<"access_token", S(tok)>>,
                                          <<"token_type", S("bearer")>> >>))) :
        tok \in Tokens }
    \cup { Response(200, JsonType,
                    Body("no token", 20, 20, D(<< <<"token_type", S("bearer")>> >>))),
           Response(401, JsonType,
                    Body("unauthorized", 30, 30, D(<< <<"code", S("unauthorized")>> >>))) }

\* The platform's answers to an API request.
ErrorResponses ==
    { Response(404, JsonType, Body("not found", 25, 25, D(<< <<"code", S("not_found")>> >>))),
      Response(301, PyNone, EmptyBody) }
NoContentResponses ==
    { Response(204, PyNone, EmptyBody), Response(204, JsonType, EmptyBody) }
JsonResponses ==
    { Response(200, JsonType, Body("object", 22, 22, D(<< <<"workbookId", S("wb_1")>> >>))),
      Response(200, S("application/json; charset=utf-8"), Body("array", 2, 2, L(<<>>))) }
TextResponses ==
    { Response(200, S("text/csv"), Body("prix,5\\u20ac", 7, 9, PyNone)) }
BinaryResponses ==
    { Response(200, S("application/pdf"), Body("%PDF", 4, 4, PyNone)),
      Response(200, PyNone, Body("raw", 3, 3, PyNone)) }
GenericResponses ==
    ErrorResponses \cup NoContentResponses \cup JsonResponses \cup TextResponses
    \cup BinaryResponses

\* JSON bodies that look like make_request's own results.
DownloadJsonResponses ==
    { Response(200, JsonType,
               Body("status", 23, 23, D(<< <<"status", S("not_ready")>> >>))),
      Response(200, JsonType, Body("data", 13, 13, D(<< <<"data", S("x")>> >>))) }

\* Grant lists of the platform: entries with a member, a team, or neither.
GrantEntries ==
    { D(<< <<"memberId", S("m1")>>, <<"permission", S("view")>> >>),
      D(<< <<"teamId", S("t1")>>, <<"permission", S("edit")>> >>),
      D(<< <<"permission", S("view")>> >>) }
GrantsResponses ==
    { Response(200, JsonType, Body("grants", 50, 50, D(<< <<"entries", L(e)>> >>))) :
        e \in UNION { [1..n -> GrantEntries] : n \in 0..MaxGrants } }
    \cup { Response(200, JsonType, Body("object", 22, 22, D(<< <<"total", I(0)>> >>))),
           Response(200, JsonType, Body("array", 2, 2, L(<<>>))),
           Response(404, JsonType,
                    Body("not found", 25, 25, D(<< <<"code", S("not_found")>> >>))) }
MembersResponses ==
    { Response(200, JsonType, Body("members", 60, 60, D(<< <<"entries", L(e)>> >>))) :
        e \in { << D(<< <<"memberId", S("m1")>>, <<"firstName", S("Ann")>>,
                        <<"lastName", S("Lee")>>, <<"email", S("a@b.c")>> >>) >>,
                << D(<< <<"memberId", S("m1")>>, <<"email", S("a@b.c")>> >>) >>,
                << D(<< <<"memberId", S("m2")>>, <<"email", S("z@b.c")>> >>) >> } }
    \cup { Response(200, JsonType, Body("array", 2, 2, L(<<>>))),
           Response(404, JsonType,
                    Body("not found", 25, 25, D(<< <<"code", S("not_found")>> >>))) }
TeamsResponses ==
    { Response(200, JsonType, Body("teams", 60, 60, D(<< <<"entries", L(e)>> >>))) :
        e \in { << D(<< <<"teamId", S("t1")>>, <<"name", S("ops")>> >>) >>,
                << D(<< <<"teamId", S("t1")>> >>) >>,
                << D(<< <<"teamId", S("t2")>>, <<"name", S("dev")>> >>) >> } }
    \cup { Response(404, JsonType,
                    Body("not found", 25, 25, D(<< <<"code", S("not_found")>> >>))) }

\* The answers tried for the request task tk has in flight.
ApiResponses(tk) ==
    IF tk.name = "sigma_list_grants"
    THEN CASE tk.step = "grants" -> GrantsResponses
           [] tk.step = "members" -> MembersResponses
           [] OTHER -> TeamsResponses
    ELSE IF tk.name = "sigma_download_export"
    THEN GenericResponses \cup DownloadJsonResponses
    ELSE GenericResponses

(***************************************************************************)
(* Specifications.                                                         *)
(*                                                                         *)
(* Spec: every tool with every argument mapping; tool calls arrive one at  *)
(* a time (the stdio transport's single session).                          *)
(* SpecConcurrent: tool calls overlap (the streamable HTTP transport); the *)
(* calls are those of one tool (with and without its required argument),   *)
(* which is all the token cache can see of a call.                         *)
(***************************************************************************)
NoCallInFlight == \A t \in Tasks : task[t].pc = "idle"

\* The transport runs a new call in its first free slot.
FirstFree(t) == \A u \in 1..(t - 1) : task[u].pc # "idle"

Next ==
    \/ Main
    \/ \E resp \in TokenResponses : PreflightResponse(resp)
    \/ /\ NoCallInFlight
       /\ \E t \in Tasks :
             /\ FirstFree(t)
             /\ \E name \in ToolNames \cup UnknownToolNames :
                   \E arguments \in ToolArgs(name) : CallTool(t, name, arguments)
    \/ \E t \in Tasks, resp \in TokenResponses : TokenResponse(t, resp)
    \/ \E t \in Tasks : \E resp \in ApiResponses(task[t]) : ApiResponse(t, resp)
    \/ \E t \in Tasks : Deliver(t)
    \/ \E d \in CoarseTickSteps : Tick(d)

Spec == Init /\ [][Next]_vars

ConcurrentToolNames == {"sigma_get_workbook"}
ConcurrentToolArgs(name) == ArgsOver([workbook_id |-> {S("wb1")}])
ConcurrentApiResponses ==
    { Response(200, JsonType, Body("object", 22, 22, D(<< <<"workbookId", S("wb_1")>> >>))),
      Response(404, JsonType, Body("not found", 25, 25, D(<< <<"code", S("not_found")>> >>))) }

NextConcurrent ==
    \/ Main
    \/ \E resp \in TokenResponses : PreflightResponse(resp)
    \/ \E t \in Tasks :
          /\ FirstFree(t)
          /\ \E name \in ConcurrentToolNames :
                \E arguments \in ConcurrentToolArgs(name) : CallTool(t, name, arguments)
    \/ \E t \in Tasks, resp \in TokenResponses : TokenResponse(t, resp)
    \/ \E t \in Tasks, resp \in ConcurrentApiResponses : ApiResponse(t, resp)
    \/ \E t \in Tasks : Deliver(t)
    \/ \E d \in TickSteps : Tick(d)

SpecConcurrent == Init /\ [][NextConcurrent]_vars

\* SpecExport: the export and download tools alone, one call at a time,
\* with every format of the schema's enum (line 258) and every combination
\* of the optional arguments.
ExportToolNames == {"sigma_export_workbook", "sigma_download_export"}
ExportFormats == {S("csv"), S("xlsx"), S("json"), S("jsonl"), S("pdf"), S("png")}
ExportToolArgs(name) ==
    IF name = "sigma_export_workbook"
    THEN ArgsOver([workbook_id |-> {S("wb1")},
                   element_id |-> {S("el1"), S("")},
                   page_id |-> {S("pg1"), S("")},
                   format_type |-> ExportFormats,
                   row_limit |-> {I(100)},
                   offset |-> {I(0), I(50)}])
    ELSE ArgsOver([query_id |-> {S("q1")}])
SubmissionResponses ==
    { Response(200, JsonType, Body("query", 24, 24, D(<< <<"queryId", S("q1")>> >>))),
      Response(404, JsonType, Body("not found", 25, 25, D(<< <<"code", S("not_found")>> >>))) }
ExportApiResponses(tk) ==
    IF tk.name = "sigma_export_workbook" THEN SubmissionResponses
    ELSE GenericResponses \cup DownloadJsonResponses

NextExport ==
    \/ Main
    \/ \E resp \in TokenResponses : PreflightResponse(resp)
    \/ /\ NoCallInFlight
       /\ \E t \in Tasks :
             /\ FirstFree(t)
             /\ \E name \in ExportToolNames :
                   \E arguments \in ExportToolArgs(name) : CallTool(t, name, arguments)
    \/ \E t \in Tasks, resp \in TokenResponses : TokenResponse(t, resp)
    \/ \E t \in Tasks : \E resp \in ExportApiResponses(task[t]) : ApiResponse(t, resp)
    \/ \E t \in Tasks : Deliver(t)
    \/ \E d \in CoarseTickSteps : Tick(d)

SpecExport == Init /\ [][NextExport]_vars

\* SpecPolling: export and download calls that overlap, so that a call
\* runs while the results of earlier calls are still there to compare
\* with; each call records what had happened when it began.
PollingToolArgs(name) ==
    IF name = "sigma_export_workbook" THEN { [workbook_id |-> S("wb1")] }
    ELSE { [query_id |-> S("q1")] }
PollingTokenResponses ==
    { Response(200, JsonType,
               Body("token", 40, 40, D(<< <<"access_token", S("tokA")>>,
                                          <<"token_type", S("bearer")>> >>))),
      Response(401, JsonType,
               Body("unauthorized", 30, 30, D(<< <<"code", S("unauthorized")>> >>))) }
PollResponses ==
    { Response(204, PyNone, EmptyBody),
      Response(200, S("application/pdf"), Body("%PDF", 4, 4, PyNone)),
      Response(404, JsonType, Body("not found", 25, 25, D(<< <<"code", S("not_found")>> >>))) }
Accepted ==
    Response(200, JsonType, Body("query", 24, 24, D(<< <<"queryId", S("q1")>> >>)))
PollingApiResponses(tk) ==
    IF tk.name = "sigma_export_workbook" THEN {Accepted} ELSE PollResponses

NextPolling ==
    \/ Main
    \/ \E resp \in PollingTokenResponses : PreflightResponse(resp)
    \/ \E t \in Tasks :
          /\ FirstFree(t)
          /\ \E name \in ExportToolNames :
                \E arguments \in PollingToolArgs(name) :
                    CallToolTracked(t, name, arguments)
    \/ \E t \in Tasks, resp \in PollingTokenResponses : TokenResponse(t, resp)
    \/ \E t \in Tasks : \E resp \in PollingApiResponses(task[t]) : ApiResponse(t, resp)
    \/ \E t \in Tasks : Deliver(t)
    \/ \E d \in CoarseTickSteps : Tick(d)

SpecPolling == Init /\ [][NextPolling]_vars

(***************************************************************************)
(* Properties.                                                             *)
(***************************************************************************)
Ended == {gatLog[i] : i \in 1..Len(gatLog)}
Running == {t \in Tasks : task[t].pc # "idle"}
Done == {t \in Tasks : task[t].pc = "done"}
Text(t) == task[t].result.blocks[1].text

\* C1: a get_access_token call made while a token is cached and less than
\* 55 minutes have passed since it was stored performs no token exchange
\* and returns the cached token; a call made with no cached token, or 55
\* minutes or more after it was stored, performs a token exchange.
C1_TokenCaching ==
    \A g \in Ended :
        /\ g.fresh => g.exchanged = 0 /\ g.ok /\ g.token = g.cached
        /\ ~g.fresh => g.exchanged = 1

\* A call one minute before the expiry is answered from the cache.
C1_Witness ==
    \E g \in Ended :
        g.caller # 0 /\ g.fresh /\ g.exchanged = 0 /\ TokenAge = TokenTtlMinutes - 1

\* C2: under any interleaving of tool invocations, a token that
\* get_access_token returns is less than 55 minutes old, counted from the
\* moment the exchange response that produced it was stored.
C2_ReturnedTokenAge ==
    \A g \in Ended : g.ok => g.age < TokenTtlMinutes

\* A task is handed the cached token while another task's exchange is in
\* flight.
C2_Witness ==
    \E g \in Ended :
        /\ g.ok /\ g.exchanged = 0
        /\ \E u \in Tasks : u # g.caller /\ task[u].pc = "token"

\* C3: token refresh is single-flight: at most one token exchange request
\* is in flight at any time.
ExchangesInFlight ==
    Cardinality({t \in Tasks : task[t].pc = "token"})
    + (IF main_pc = "preflight" THEN 1 ELSE 0)
C3_SingleFlight == ExchangesInFlight <= 1

\* C4: when the exchange answers non-2xx or without access_token,
\* get_access_token fails after exactly one exchange attempt, and the cached
\* token and its expiry are as they were before the call.
C4_FailedExchange ==
    [][\A i \in 1..Len(gatLog') :
          ~gatLog'[i].ok =>
              /\ gatLog'[i].exchanged = 1
              /\ UNCHANGED <<access_token, token_expires_at>>]_vars

\* A refresh of an expired token fails mid-run: the expired token stays.
C4_Witness ==
    \E g \in Ended :
        ~g.ok /\ g.caller # 0 /\ g.cached.ty # "none" /\ access_token = g.cached

\* C5: a 2xx response is classified in this order: status 204 gives the
\* not-ready result whatever the content type; else a content type starting
\* with application/json gives the parsed body; else one starting with
\* text/ gives a text result with the body's byte size; else (also without
\* content type) a binary result with the body's byte size.
ContentTypeOf(resp) == IF resp.ctype.ty = "none" THEN "" ELSE resp.ctype.s
C5_Classification ==
    mrLog.caller # 0 /\ mrLog.resp.status >= 200 /\ mrLog.resp.status <= 299 =>
        LET resp == mrLog.resp
            result == mrLog.result
        IN  /\ mrLog.classified
            /\ IF resp.status = 204
               THEN result = NotReadyResult
               ELSE IF StartsWith(ContentTypeOf(resp), "application/json")
               THEN result = resp.body.json
               ELSE /\ DictKeys(result) = {"data", "content_type", "size"}
                    /\ DictGet(result, "content_type", S("")) = resp.ctype
                    /\ DictGet(result, "size", PyNone) = I(resp.body.nbytes)
                    /\ IF StartsWith(ContentTypeOf(resp), "text/")
                       THEN DictGet(result, "data", PyNone) = S(resp.body.content)
                       ELSE DictGet(result, "data", PyNone).ty = "bytes"

\* A 204 response that carries a JSON content type is the not-ready result.
C5_Witness ==
    /\ mrLog.caller # 0
    /\ mrLog.resp.status = 204
    /\ mrLog.resp.ctype = JsonType
    /\ mrLog.result = NotReadyResult

\* C6: on a non-2xx answer make_request fails at once: the response is not
\* classified, the request is not sent a second time, and the failure
\* reaches the caller (the tool's branch, which ends the call with the
\* error's text unless it is a secondary fetch of sigma_list_grants).
C6_NoRetry ==
    mrLog.caller # 0 /\ mrLog.resp.status # 0
    /\ (mrLog.resp.status < 200 \/ mrLog.resp.status > 299) =>
        LET tk == task[mrLog.caller]
        IN  /\ mrLog.raised /\ ~mrLog.classified
            /\ mrLog.sends = 1
            /\ tk.pc = "api" => tk.req.endpoint # mrLog.req.endpoint
            /\ tk.step \in {"main", "grants"} =>
                  /\ tk.pc = "done"
                  /\ Len(tk.sent) = 1
                  /\ StartsWith(tk.result.blocks[1].text, "Error: ")
                  /\ Contains(tk.result.blocks[1].text, ToString(mrLog.resp.status))

\* A redirect status (neither 2xx nor 4xx/5xx) ends the call.
C6_Witness ==
    /\ mrLog.caller # 0
    /\ mrLog.resp.status = 301
    /\ mrLog.raised
    /\ task[mrLog.caller].pc = "done"

\* C7: every tool call, whatever the tool name, the arguments and the
\* upstream outcome, returns exactly one text content block and raises
\* nothing to the transport.
C7_OneTextBlock ==
    \A t \in Done :
        /\ ~task[t].result.raised
        /\ Len(task[t].result.blocks) = 1
        /\ task[t].result.blocks[1].type = "text"

\* A call of an unknown tool ends with one text block.
C7_Witness ==
    \E t \in Done :
        /\ task[t].name \in UnknownToolNames
        /\ Len(task[t].result.blocks) = 1

\* C8: a tool call failed if and only if its text begins with "Error: ".
C8_ErrorPrefix ==
    \A t \in Done :
        ~task[t].result.raised =>
            (task[t].result.failed <=> StartsWith(Text(t), "Error: "))

\* The failures other than a grant without grantee do carry the prefix, and
\* no success does.
C8_ErrorPrefixButNoGrantee ==
    \A t \in Done :
        ~task[t].result.raised /\ Text(t) # NoGranteeText =>
            (task[t].result.failed <=> StartsWith(Text(t), "Error: "))

\* C9: a call that misses an argument the tool's schema requires returns
\* an error text that names a missing field, and sends no upstream request,
\* neither a token exchange nor an API request.
MissingRequired(t) == Required(task[t].name) \ DOMAIN task[t].arguments
C9_MissingArgument ==
    \A t \in Running :
        MissingRequired(t) # {} =>
            /\ task[t].pc = "done"
            /\ \E k \in MissingRequired(t) : Text(t) = "Error: '" \o k \o "'"
            /\ task[t].posts = 0
            /\ task[t].sent = <<>>

\* sigma_create_member with an email but no first name.
C9_Witness ==
    \E t \in Done :
        /\ task[t].name = "sigma_create_member"
        /\ "email" \in DOMAIN task[t].arguments
        /\ Text(t) = "Error: 'first_name'"
        /\ task[t].posts = 0 /\ task[t].sent = <<>>

\* C10 as stated: the export mode follows from which identifiers are
\* present: element_id present gives element mode, page_id present without
\* element_id gives page mode, neither gives workbook mode; the payload has
\* elementId only in element mode and pageId only in page mode, and the
\* result reports the mode as export_mode.
ExportTasks ==
    {t \in Running : task[t].name = "sigma_export_workbook" /\ task[t].sent # <<>>}
ExportAgrees(t, mode) ==
    LET payload == task[t].sent[1].json
    IN  /\ DictHas(payload, "elementId") <=> mode = "element"
        /\ DictHas(payload, "pageId") <=> mode = "page"
        /\ task[t].pc = "done" /\ ~task[t].result.failed =>
              Contains(Text(t), "\"export_mode\": \"" \o mode \o "\"")
ModeOfPresent(arguments) ==
    IF "element_id" \in DOMAIN arguments THEN "element"
    ELSE IF "page_id" \in DOMAIN arguments THEN "page"
    ELSE "workbook"
C10_ModeByPresence ==
    \A t \in ExportTasks : ExportAgrees(t, ModeOfPresent(task[t].arguments))

\* C10 amended: an identifier counts when it is present with a non-empty
\* value: a non-empty element_id gives element mode (also with a page_id);
\* a non-empty page_id without a non-empty element_id gives page mode;
\* otherwise workbook mode.  The payload has elementId only in element mode
\* and pageId only in page mode, and a successful result reports the mode.
ModeOfNonEmpty(arguments) ==
    IF "element_id" \in DOMAIN arguments /\ arguments["element_id"] # S("") THEN "element"
    ELSE IF "page_id" \in DOMAIN arguments /\ arguments["page_id"] # S("") THEN "page"
    ELSE "workbook"
C10_ModeByNonEmptyId ==
    \A t \in ExportTasks : ExportAgrees(t, ModeOfNonEmpty(task[t].arguments))

\* An export with both identifiers ends in element mode, without pageId.
C10_Witness ==
    \E t \in Done :
        /\ task[t].name = "sigma_export_workbook"
        /\ ~task[t].result.failed
        /\ Truthy(GetOpt(task[t].arguments, "element_id"))
        /\ Truthy(GetOpt(task[t].arguments, "page_id"))
        /\ DictHas(task[t].sent[1].json, "elementId")
        /\ ~DictHas(task[t].sent[1].json, "pageId")
        /\ Contains(Text(t), "\"export_mode\": \"element\"")

\* C11: an export call in page or workbook mode with format csv, json or
\* jsonl returns a validation message and sends no upstream request, neither
\* a token exchange nor an export submission; so every export request
\* submitted in page or workbook mode has format pdf, png or xlsx.
FormatOf(arguments) ==
    IF "format_type" \in DOMAIN arguments THEN arguments["format_type"].s ELSE "pdf"
ExportCalls == {t \in Running : task[t].name = "sigma_export_workbook"}
Submitted == {t \in ExportCalls : task[t].sent # <<>>}
C12_RowsOnlyInElementMode ==
    \A t \in Submitted :
        LET payload == task[t].sent[1].json
            arguments == task[t].arguments
            mode == ModeOfNonEmpty(arguments)
        IN  /\ DictHas(payload, "rowLimit") =>
                /\ mode = "element"
                /\ "row_limit" \in DOMAIN arguments
                /\ DictGet(payload, "rowLimit", PyNone) = arguments["row_limit"]
            /\ DictHas(payload, "offset") =>
                /\ mode = "element"
                /\ "offset" \in DOMAIN arguments
                /\ DictGet(payload, "offset", PyNone) = arguments["offset"]

\* An element export with row_limit and without offset carries rowLimit
\* alone.
C12_Witness ==
    \E t \in Submitted :
        /\ ModeOfNonEmpty(task[t].arguments) = "element"
        /\ "row_limit" \in DOMAIN task[t].arguments
        /\ "offset" \notin DOMAIN task[t].arguments
        /\ DictGet(task[t].sent[1].json, "rowLimit", PyNone) = I(100)
        /\ ~DictHas(task[t].sent[1].json, "offset")

\* C13: the server never polls for the caller: an export call sends one
\* export submission and never a download request, a download call sends
\* one download request, and whatever the answer (not ready, ready, error)
\* the call ends with it: no second request, no waiting loop.
IsSubmission(req) ==
    req.method = "POST" /\ Contains(req.endpoint, "/export")
    /\ ~Contains(req.endpoint, "/download")
IsDownload(req) ==
    req.method = "GET" /\ StartsWith(req.endpoint, "/v2/query/")
    /\ Contains(req.endpoint, "/download")
C13_NoPolling ==
    \A t \in {u \in Running : task[u].name \in ExportToolNames} :
        LET tk == task[t]
        IN  /\ Len(tk.sent) <= 1
            /\ tk.pc = "api" => Len(tk.sent) = 1
            /\ \A i \in 1..Len(tk.sent) :
                  IF tk.name = "sigma_export_workbook" THEN IsSubmission(tk.sent[i])
                  ELSE IsDownload(tk.sent[i])
            /\ mrLog.caller = t /\ mrLog.resp.status # 0 =>
                  tk.pc = "done" /\ Len(tk.sent) = 1

\* A download answered 204 ends after its one request.
C13_Witness ==
    \E t \in Done :
        /\ task[t].name = "sigma_download_export"
        /\ mrLog.caller = t
        /\ mrLog.resp.status = 204
        /\ Len(task[t].sent) = 1

\* C14: when the platform answers a download request with status 204,
\* sigma_download_export returns exactly the text "Export is still
\* processing. Please wait a few seconds and try again." as an ordinary
\* result: no "Error: " prefix, no exception.
C14_NotReadyText ==
    \A t \in Running :
        /\ task[t].name = "sigma_download_export"
        /\ mrLog.caller = t
        /\ mrLog.resp.status = 204
        => /\ task[t].pc = "done"
           /\ ~task[t].result.raised
           /\ ~task[t].result.failed
           /\ Len(task[t].result.blocks) = 1
           /\ Text(t) = "Export is still processing. Please wait a few seconds and try again."
           /\ ~StartsWith(Text(t), "Error: ")

\* A 204 with a JSON content type, after the token was refreshed in the
\* call.
C14_Witness ==
    \E t \in Done :
        /\ task[t].name = "sigma_download_export"
        /\ mrLog.caller = t
        /\ mrLog.resp.status = 204
        /\ mrLog.resp.ctype = JsonType
        /\ task[t].posts = 1
        /\ Text(t) = "Export is still processing. Please wait a few seconds and try again."

\* C15: for a ready download, a binary body is rendered as a summary with
\* its content type and byte size and never the body itself; a text body
\* of a recognized text format (content type containing csv, json or text)
\* is rendered as content type and size followed by the body; a JSON body
\* is rendered as pretty-printed JSON.
ReadyDownloads ==
    {t \in Running : /\ task[t].name = "sigma_download_export"
                     /\ mrLog.caller = t
                     /\ mrLog.resp.status >= 200 /\ mrLog.resp.status <= 299
                     /\ mrLog.resp.status # 204}
BodyKind(resp) ==
    IF StartsWith(ContentTypeOf(resp), "application/json") THEN "json"
    ELSE IF StartsWith(ContentTypeOf(resp), "text/") THEN "text"
    ELSE "binary"
RenderedBinaryAndText(t) ==
    LET resp == mrLog.resp
        size == ToString(resp.body.nbytes)
    IN  /\ BodyKind(resp) = "binary" =>
              /\ task[t].pc = "done" /\ ~task[t].result.failed
              /\ Text(t) = "Export downloaded (binary). Content-Type: "
                           \o PyStr(resp.ctype) \o ". Size: " \o size \o " bytes"
              /\ ~Contains(Text(t), resp.body.content)
        /\ BodyKind(resp) = "text"
           /\ (\/ Contains(ContentTypeOf(resp), "csv")
               \/ Contains(ContentTypeOf(resp), "json")
               \/ Contains(ContentTypeOf(resp), "text")) =>
              /\ task[t].pc = "done" /\ ~task[t].result.failed
              /\ Text(t) = "Content-Type: " \o ContentTypeOf(resp) \o "\nSize: "
                           \o size \o " bytes\n\n" \o resp.body.content
RenderedJson(t) ==
    BodyKind(mrLog.resp) = "json" =>
        /\ task[t].pc = "done" /\ ~task[t].result.failed
        /\ Text(t) = JsonText(mrLog.resp.body.json, 0)
C15_DownloadRendering ==
    \A t \in ReadyDownloads : RenderedBinaryAndText(t) /\ RenderedJson(t)

\* The binary and text parts alone.
C15_BinaryAndTextRendering == \A t \in ReadyDownloads : RenderedBinaryAndText(t)

\* C16: grant name resolution is best-effort: when the grants fetch
\* succeeded, sigma_list_grants returns the grant list as a successful
\* result even if the members fetch or the teams fetch fails or lacks a
\* grant's ID; a grant whose memberId is not resolved gets memberName
\* "Unknown (member not found)", one whose teamId is not resolved gets
\* teamName "Unknown (possibly All Members or system team)".
GrantCalls == {t \in Running : task[t].name = "sigma_list_grants"}
\* The calls whose grants fetch gave a grant list with IDs to resolve.
Resolving == {t \in GrantCalls : task[t].step \in {"members", "teams"}}
\* The IDs under `key` in the list a secondary fetch returned.
FetchedIds(key) ==
    IF mrLog.classified /\ mrLog.result.ty = "dict"
    THEN {DictGet(e, key, PyNone) : e \in {Entries(mrLog.result)[i] :
                                             i \in 1..Len(Entries(mrLog.result))}}
    ELSE {}
HasGrantOf(t, key) ==
    \E i \in 1..Len(Entries(task[t].locals.data)) :
        /\ DictHas(Entries(task[t].locals.data)[i], key)
        /\ key = "teamId" => ~DictHas(Entries(task[t].locals.data)[i], "memberId")
UnknownMember == "\"memberName\": \"Unknown (member not found)\""
UnknownTeam == "\"teamName\": \"Unknown (possibly All Members or system team)\""
C16_BestEffortNames ==
    \A t \in Resolving :
        LET tk == task[t]
            last == mrLog.caller = t /\ tk.pc = "done"
        IN  \* a failed secondary fetch does not end the call in failure
            /\ tk.pc = "done" =>
                  /\ ~tk.result.raised /\ ~tk.result.failed
                  /\ ~StartsWith(Text(t), "Error: ")
                  /\ Contains(Text(t), "\"entries\": [")
            \* the members fetch failed: the call goes on without names
            /\ mrLog.caller = t /\ mrLog.raised /\ tk.pc # "done" =>
                  tk.step = "teams" /\ tk.locals.member_names = <<>>
            /\ tk.pc = "done" /\ tk.step = "teams" /\ tk.locals.member_names = <<>>
               /\ HasGrantOf(t, "memberId") => Contains(Text(t), UnknownMember)
            \* the last fetch failed or lacks the ID
            /\ last /\ tk.step = "members" /\ S("m1") \notin FetchedIds("memberId") =>
                  Contains(Text(t), UnknownMember)
            /\ last /\ tk.step = "teams" /\ S("t1") \notin FetchedIds("teamId") =>
                  Contains(Text(t), UnknownTeam)

\* The members fetch answered 404 and the teams fetch lacks the team: the
\* call succeeds with both names unknown.
C16_Witness ==
    \E t \in Resolving :
        /\ task[t].pc = "done"
        /\ task[t].step = "teams"
        /\ task[t].locals.member_names = <<>>
        /\ mrLog.caller = t /\ mrLog.classified
        /\ S("t1") \notin FetchedIds("teamId")
        /\ Contains(Text(t), UnknownMember)
        /\ Contains(Text(t), UnknownTeam)

\* C17: in the result of a successful sigma_list_grants call every grant
\* entry carries exactly one resolved name: memberName when the entry has a
\* memberId, teamName when it has a teamId; no entry is returned without a
\* name.
RECURSIVE Occurrences(_, _, _)
Occurrences(s, sub, i) ==
    IF i + Len(sub) - 1 > Len(s) THEN 0
    ELSE (IF SubSeq(s, i, i + Len(sub) - 1) = sub THEN 1 ELSE 0)
         + Occurrences(s, sub, i + 1)
\* The successful calls that return a grant list, and the list the grants
\* fetch gave them.
ListedGrants ==
    {t \in GrantCalls :
        /\ task[t].pc = "done" /\ ~task[t].result.failed
        /\ \/ task[t].step \in {"members", "teams"}
           \/ mrLog.caller = t /\ mrLog.classified /\ mrLog.result.ty = "dict"
              /\ DictHas(mrLog.result, "entries")}
Fetched(t) ==
    IF task[t].step = "grants" THEN Entries(mrLog.result)
    ELSE Entries(task[t].locals.data)
NumberWith(t, key) ==
    Cardinality({i \in 1..Len(Fetched(t)) : DictHas(Fetched(t)[i], key)})
MemberNamed(t) == Occurrences(Text(t), "\"memberName\": ", 1)
TeamNamed(t) == Occurrences(Text(t), "\"teamName\": ", 1)
C17_EveryGrantNamed ==
    \A t \in ListedGrants :
        /\ MemberNamed(t) = NumberWith(t, "memberId")
        /\ TeamNamed(t) = NumberWith(t, "teamId")
        /\ MemberNamed(t) + TeamNamed(t) = Len(Fetched(t))

\* The entries that have a memberId or a teamId carry their one name.
C17_GrantsWithIdNamed ==
    \A t \in ListedGrants :
        /\ MemberNamed(t) = NumberWith(t, "memberId")
        /\ TeamNamed(t) = NumberWith(t, "teamId")

\* C18: every list-style tool accepts an optional pagination token named
\* page and, when one is supplied, sends it unchanged as a query parameter
\* of its upstream request; when none is supplied no pagination parameter
\* is sent.
ListToolNames ==
    {"sigma_list_workbooks", "sigma_list_datasets", "sigma_list_members",
     "sigma_list_member_teams", "sigma_list_teams", "sigma_list_grants",
     "sigma_list_account_types", "sigma_list_tags", "sigma_list_workbook_tags",
     "sigma_list_workbooks_by_tag", "sigma_list_workbook_pages",
     "sigma_list_page_elements", "sigma_list_element_columns"}
HasParam(endpoint, param) ==
    Contains(endpoint, "?" \o param) \/ Contains(endpoint, "&" \o param)
PageForwarded(t) ==
    LET arguments == task[t].arguments
        endpoint == task[t].sent[1].endpoint
    IN  /\ "page" \in DOMAIN arguments =>
              /\ HasParam(endpoint, "page=" \o arguments["page"].s)
              /\ Occurrences(endpoint, "page=", 1) = 1
        /\ "page" \notin DOMAIN arguments /\ "page_token" \notin DOMAIN arguments =>
              ~HasParam(endpoint, "page=") /\ ~HasParam(endpoint, "pageToken=")
C18_PageForwarded ==
    \A t \in Running :
        task[t].name \in ListToolNames /\ task[t].sent # <<>> => PageForwarded(t)

\* The list-style tools other than datasets and account types forward it.
C18_PageForwardedButTwo ==
    \A t \in Running :
        /\ task[t].name \in ListToolNames
                            \ {"sigma_list_datasets", "sigma_list_account_types"}
        /\ task[t].sent # <<>>
        => PageForwarded(t)

\* C19: if SIGMA_CLIENT_ID or SIGMA_CLIENT_SECRET is missing or empty at
\* startup, initialization fails before any API client is created: the
\* global client stays unset, no network request is sent, no transport is
\* started and the process exits.
Unset(v) == v = PyNone \/ v = S("")
NoRequestEver ==
    /\ main_gat = NoGatStart
    /\ gatLog = <<>> /\ mrLog = NoMr
    /\ access_token = PyNone /\ token_expires_at = PyNone /\ stored_at = PyNone
C19_MissingCredentials ==
    Unset(env.client_id) \/ Unset(env.client_secret) =>
        /\ main_pc \in {"start", "exited"}
        /\ sigma_api = PyNone
        /\ NoRequestEver
        /\ \A t \in Tasks : task[t] = IdleTask

\* An empty client id with a secret set: the process has exited.
C19_Witness ==
    /\ env.client_id = S("")
    /\ env.client_secret = S("secret")
    /\ main_pc = "exited"
    /\ sigma_api = PyNone

\* C20: startup performs a token exchange before any tool call can be
\* served; if that exchange fails, the process exits without ever
\* accepting or serving a tool call.
StartupExchangeFailed == \E g \in Ended : g.caller = 0 /\ ~g.ok
C20_ExchangeBeforeServing ==
    /\ [](\A t \in Tasks :
             task[t].pc # "idle" =>
                 /\ sigma_api # PyNone
                 /\ stored_at # PyNone
                 /\ main_pc = "serving")
    /\ [](main_pc = "serving" => stored_at # PyNone /\ access_token # PyNone)
    /\ [](StartupExchangeFailed =>
             main_pc = "exited" /\ \A t \in Tasks : task[t] = IdleTask)
    /\ [][main_pc = "start" => main_pc' \in {"preflight", "exited"}]_vars
    /\ [][main_pc = "exited" =>
             main_pc' = "exited" /\ \A t \in Tasks : task'[t] = IdleTask]_vars

\* The credentials are set and the platform refuses them: exited, nothing
\* served.
C20_Witness ==
    /\ StartupExchangeFailed
    /\ ~CredentialsMissing
    /\ main_pc = "exited"
    /\ access_token = PyNone

\* C21 as stated: after a credential exchange has failed during a tool
\* call mid-run, no later tool call of the same process obtains a token and
\* succeeds.
C21_NoRecoveryWithoutRestart ==
    \A t \in Running :
        task[t].after_failure =>
            /\ task[t].sent = <<>>
            /\ task[t].pc = "done" => task[t].result.failed

\* C21 amended: a credential exchange that fails during a tool call is not
\* retried in that make_request call and sends no API request, and the
\* process keeps serving; a later call that finds no valid token exchanges
\* anew, and when that exchange succeeds the call sends its request with
\* the new token and succeeds on a 204 or JSON-object answer, without a
\* restart.
C21_RecoveryByNextCall ==
    /\ \A g \in Ended :
          g.caller # 0 /\ ~g.ok =>
              /\ main_pc = "serving"
              /\ g.exchanged = 1
              /\ mrLog.caller = g.caller /\ mrLog.raised /\ mrLog.sends = 0
              /\ task[g.caller].pc = "token" =>
                    task[g.caller].name = "sigma_list_grants"
                    /\ task[g.caller].step = "teams"
    /\ \A t \in Running :
          task[t].after_failure =>
              /\ \A g \in Ended :
                    g.caller = t /\ g.exchanged = 1 /\ g.ok =>
                        /\ task[t].pc = "api"
                        /\ access_token = g.token
                        /\ DictGet(task[t].req.headers, "Authorization", PyNone)
                              = S("Bearer " \o g.token.s)
              /\ /\ mrLog.caller = t /\ mrLog.classified
                 /\ task[t].name # "sigma_list_grants"
                 /\ \/ mrLog.resp.status = 204
                    \/ /\ StartsWith(ContentTypeOf(mrLog.resp), "application/json")
                       /\ mrLog.result.ty = "dict"
                 => /\ task[t].pc = "done"
                    /\ ~task[t].result.failed
                    /\ ~StartsWith(Text(t), "Error: ")

\* A call begun after a failed exchange makes its own exchange and ends
\* with the platform's answer.
C21_Witness ==
    /\ ExchangeFailurePending
    /\ main_pc = "serving"
    /\ \E t \in Done :
          /\ task[t].after_failure
          /\ task[t].posts = 1
          /\ Len(task[t].sent) = 1
          /\ ~task[t].result.failed

\* C22: the cached token is replaced wholesale: in every state a task can
\* observe, access_token and token_expires_at are both unset or were both
\* written by the same successful exchange, also when two refreshes
\* overlap: never a new token with an old expiry or the reverse.
WrittenTogether ==
    \E g \in Ended' :
        /\ g.exchanged = 1 /\ g.ok
        /\ access_token' = g.token
        /\ token_expires_at' = DateTime(now + TokenTtlMinutes)
        /\ stored_at' = DateTime(now)
C22_WholesaleReplacement ==
    /\ [](access_token = PyNone <=> token_expires_at = PyNone)
    /\ [](access_token # PyNone =>
             /\ stored_at # PyNone
             /\ token_expires_at = DateTime(stored_at.t + TokenTtlMinutes))
    /\ [][\/ UNCHANGED <<access_token, token_expires_at, stored_at>>
          \/ WrittenTogether]_vars

\* A refresh stores its token and expiry while another task's refresh is
\* still in flight.
C22_Witness ==
    \E g \in Ended :
        /\ g.caller # 0 /\ g.exchanged = 1 /\ g.ok
        /\ g.cached # PyNone /\ g.cached # g.token
        /\ access_token = g.token
        /\ token_expires_at = DateTime(now + TokenTtlMinutes)
        /\ \E u \in Tasks : u # g.caller /\ task[u].pc = "token"

\* C23: every API request sent upstream is preceded, within the same
\* make_request call, by a successful get_access_token and carries the
\* Authorization header "Bearer " plus the token that call returned, next
\* to the caller's other headers; if token acquisition fails, no API
\* request is sent.
\* The get_access_token calls of task t that ended in this step.
EndedFor(t) == {i \in 1..Len(gatLog) : gatLog[i].caller = t}
LastEndedFor(t) == gatLog[CHOOSE i \in EndedFor(t) : \A j \in EndedFor(t) : j <= i]
\* The headers the tool branches pass to make_request.
CallerHeaders(req) ==
    IF req.method = "POST" THEN {<<"Content-Type", S("application/json")>>} ELSE {}
HeadersOf(req) == {req.headers.items[i] : i \in 1..Len(req.headers.items)}
\* Headers a caller could pass with an Authorization header of its own.
OwnAuthHeaders ==
    D(<< <<"Authorization", S("Basic abc")>>, <<"Accept", S("text/csv")>> >>)
C23_AuthorizedRequests ==
    /\ [](\A g \in Ended :
             g.ok =>
                 HeadersOf(WithAuth(Request("GET", "/v2/workbooks", PyNone,
                                            OwnAuthHeaders), g.token)) =
                     {<<"Accept", S("text/csv")>>,
                      <<"Authorization", S("Bearer " \o g.token.s)>>})
    /\ [](\A t \in Tasks :
             task[t].pc = "api" =>
                 /\ task[t].mrSends = 1
                 /\ task[t].sent # <<>>
                 /\ task[t].sent[Len(task[t].sent)] = task[t].req
                 /\ \E tok \in Tokens :
                       HeadersOf(task[t].req) =
                           CallerHeaders(task[t].req)
                           \cup {<<"Authorization", S("Bearer " \o tok)>>})
    /\ [](\A t \in Tasks : \A i \in 1..Len(task[t].sent) :
             DictHas(task[t].sent[i].headers, "Authorization"))
    /\ [](\A g \in Ended :
             g.caller # 0 /\ ~g.ok =>
                 /\ mrLog.caller = g.caller
                 /\ mrLog.raised /\ mrLog.sends = 0 /\ mrLog.resp = NoResponse)
    /\ [][\A t \in Tasks :
             task'[t].sent # task[t].sent /\ task'[t].sent # <<>> =>
                 /\ task'[t].pc = "api"
                 /\ task'[t].sent = Append(task[t].sent, task'[t].req)
                 /\ \E i \in 1..Len(gatLog') :
                       /\ gatLog'[i].caller = t
                       /\ \A j \in (i + 1)..Len(gatLog') : gatLog'[j].caller # t
                       /\ gatLog'[i].ok
                       /\ DictGet(task'[t].req.headers, "Authorization", PyNone)
                             = S("Bearer " \o gatLog'[i].token.s)]_vars

\* A POST goes out with the token its own exchange returned and with the
\* caller's Content-Type header, while the cache held another token before.
C23_Witness ==
    \E t \in Tasks :
        /\ task[t].pc = "api"
        /\ task[t].req.method = "POST"
        /\ EndedFor(t) # {}
        /\ LastEndedFor(t).exchanged = 1
        /\ LastEndedFor(t).cached # LastEndedFor(t).token
        /\ HeadersOf(task[t].req) =
              {<<"Content-Type", S("application/json")>>,
               <<"Authorization", S("Bearer " \o LastEndedFor(t).token.s)>>}

\* C24: the server keeps no export-job state: a download of the same
\* query_id may be invoked any number of times, a not-ready answer leaves
\* the job pollable again, and the result of each download depends only on
\* the upstream answer to that invocation's single poll, never on earlier
\* export or download invocations.
Downloads ==
    {t \in Running : /\ task[t].name = "sigma_download_export"
                     /\ "query_id" \in DOMAIN task[t].arguments}
Polled == {t \in Downloads : task[t].pc = "done" /\ task[t].resp # NoResponse}
C24_StatelessDownload ==
    /\ \A t \in Downloads :
          \* every invocation goes to the platform, with one poll at most
          /\ task[t].posts + Len(task[t].sent) >= 1
          /\ Len(task[t].sent) <= 1
          /\ \A i \in 1..Len(task[t].sent) :
                /\ task[t].sent[i].method = "GET"
                /\ task[t].sent[i].endpoint =
                      "/v2/query/" \o task[t].arguments["query_id"].s \o "/download"
          /\ task[t].pc = "done" /\ task[t].sent = <<>> =>
                task[t].result.failed /\ task[t].mrSends = 0
    /\ \A t \in Polled :
          /\ Len(task[t].sent) = 1
          /\ \A u \in Polled :
                /\ task[u].arguments = task[t].arguments
                /\ task[u].resp = task[t].resp
                => task[u].result = task[t].result

\* A download begun after a not-ready answer to the same query_id polls
\* again and gets the file.
C24_Witness ==
    \E t, u \in Polled :
        /\ task[u].resp.status = 204
        /\ task[t].after_not_ready
        /\ task[t].resp.status = 200
        /\ StartsWith(Text(t), "Export downloaded (binary).")

\* C25: one sigma_list_grants invocation sends the grants request first
\* and then at most two secondary requests, at most one for members and at
\* most one for teams: the members request only if some returned grant has
\* a memberId, the teams request only if some returned grant has a teamId,
\* and neither when the grants request fails or its result has no entries
\* field.
IsGrantsRequest(req) == req.method = "GET" /\ StartsWith(req.endpoint, "/v2/grants?")
IsMembersRequest(req) == req.method = "GET" /\ StartsWith(req.endpoint, "/v2/members?")
IsTeamsRequest(req) == req.method = "GET" /\ StartsWith(req.endpoint, "/v2.1/teams?")
MembersSent(t) == {i \in 1..Len(task[t].sent) : IsMembersRequest(task[t].sent[i])}
TeamsSent(t) == {i \in 1..Len(task[t].sent) : IsTeamsRequest(task[t].sent[i])}
\* Some grant the grants request returned to task t has the key.
SomeGrantHas(t, key) ==
    /\ task[t].locals.data.ty = "dict"
    /\ \E i \in 1..Len(Entries(task[t].locals.data)) :
          DictHas(Entries(task[t].locals.data)[i], key)
\* The grants request of task t has just failed or given no entries field.
NoGrantList(t) ==
    /\ mrLog.caller = t /\ IsGrantsRequest(mrLog.req)
    /\ \/ mrLog.raised
       \/ mrLog.result.ty # "dict"
       \/ ~DictHas(mrLog.result, "entries")
C25_SecondaryFetches ==
    \A t \in GrantCalls :
        LET sent == task[t].sent
        IN  /\ Len(sent) <= 3
            /\ sent # <<>> => IsGrantsRequest(sent[1])
            /\ \A i \in 2..Len(sent) : i \in MembersSent(t) \cup TeamsSent(t)
            /\ Cardinality(MembersSent(t)) <= 1
            /\ Cardinality(TeamsSent(t)) <= 1
            /\ \A i \in MembersSent(t), j \in TeamsSent(t) : i < j
            /\ MembersSent(t) # {} => SomeGrantHas(t, "memberId")
            /\ TeamsSent(t) # {} => SomeGrantHas(t, "teamId")
            /\ NoGrantList(t) =>
                  task[t].pc = "done" /\ MembersSent(t) \cup TeamsSent(t) = {}
            /\ task[t].step = "grants" /\ task[t].pc = "done" => Len(sent) <= 1

\* A list of team grants alone: the teams request follows the grants
\* request and no members request is sent.
C25_Witness ==
    \E t \in GrantCalls :
        /\ task[t].pc = "done"
        /\ Len(task[t].sent) = 2
        /\ TeamsSent(t) = {2}
        /\ SomeGrantHas(t, "teamId")
        /\ ~SomeGrantHas(t, "memberId")

\* C26: a step of a tool invocation changes nothing that other invocations
\* read except the token cache: the credentials, the client object, the
\* position of main() and the other invocations' working data stay as they
\* were; and two finished invocations of the same tool with the same
\* arguments, the same requests sent (token included) and the same last
\* answer have the same result, whether or not another call had failed
\* before they began.
Finished == {t \in Tasks : task[t].pc = "done"}
Changed == {t \in Tasks : task'[t] # task[t]}
SameOutcome(t, u) ==
    /\ task[t].name = task[u].name
    /\ task[t].arguments = task[u].arguments
    /\ task[t].sent = task[u].sent
    /\ task[t].resp = task[u].resp
    => task[t].result = task[u].result
C26_OnlyTokenCacheShared ==
    /\ [](\A t \in Finished : \A u \in Finished : SameOutcome(t, u))
    /\ [][ /\ Changed # {} =>
                /\ env' = env
                /\ sigma_api' = sigma_api
                /\ main_pc' = main_pc
                /\ Cardinality(Changed) = 1
           /\ main_pc = "serving" => env' = env /\ sigma_api' = sigma_api
           /\ (access_token' # access_token \/ token_expires_at' # token_expires_at)
                 /\ main_pc = "serving"
              => \E t \in Changed : task[t].pc = "token" ]_vars

\* A call that began while the failed token exchange of another call was
\* waiting to be delivered has the result of a call that began after no
\* failure: both sent the same poll and got the same file.
C26_Witness ==
    \E t \in Finished : \E u \in Finished :
        /\ task[t].after_failure /\ ~task[u].after_failure
        /\ task[t].name = task[u].name
        /\ task[t].arguments = task[u].arguments
        /\ task[t].sent = task[u].sent /\ task[t].sent # <<>>
        /\ task[t].resp = task[u].resp
        /\ ~task[t].result.failed
        /\ task[t].result = task[u].result

\* C27: sigma_grant_permissions sends nothing when some grant of the list
\* names no grantee (no non-empty member_id and no non-empty team_id): the
\* call returns an error text and no request, token exchange included, goes
\* out.  When every grant names a grantee and has its permission, the call
\* goes to the platform once: at most one request is sent, none only when
\* the token exchange fails, and the request is the POST to the workbook's
\* grants with one grant object per input grant, in input order.
PermissionCalls ==
    {t \in Running : /\ task[t].name = "sigma_grant_permissions"
                     /\ {"workbook_id", "grants"} \subseteq DOMAIN task[t].arguments}
GrantsOf(t) == task[t].arguments["grants"].items
HasGrantee(grant) ==
    Truthy(GetOpt(grant, "member_id")) \/ Truthy(GetOpt(grant, "team_id"))
HasPermission(grant) == "permission" \in DOMAIN grant
GrantsSent(req) == DictGet(req.json, "grants", L(<<>>)).items
C27_WholeBatchValidated ==
    \A t \in PermissionCalls :
        LET grants_input == GrantsOf(t)
            sent == task[t].sent
        IN  /\ (\E i \in 1..Len(grants_input) : ~HasGrantee(grants_input[i])) =>
                  /\ task[t].pc = "done"
                  /\ sent = <<>> /\ task[t].posts = 0
                  /\ task[t].result.failed /\ ~task[t].result.raised
                  /\ Text(t) = NoGranteeText \/ StartsWith(Text(t), "Error: ")
            /\ \A i \in 1..Len(grants_input) :
                  /\ ~HasGrantee(grants_input[i])
                  /\ \A j \in 1..i : HasPermission(grants_input[j])
                  /\ \A j \in 1..(i - 1) : HasGrantee(grants_input[j])
                  => Text(t) = NoGranteeText
            /\ (\A i \in 1..Len(grants_input) :
                    HasGrantee(grants_input[i]) /\ HasPermission(grants_input[i])) =>
                  /\ Len(sent) <= 1
                  /\ task[t].posts + Len(sent) >= 1
                  /\ task[t].pc = "api" => Len(sent) = 1
                  /\ task[t].pc = "done" /\ sent = <<>> =>
                        task[t].result.failed /\ task[t].mrSends = 0
                  /\ task[t].pc = "done" /\ sent # <<>> /\ ~task[t].result.failed =>
                        StartsWith(Text(t), "{")
                  /\ \A k \in 1..Len(sent) :
                        /\ sent[k].method = "POST"
                        /\ sent[k].endpoint = "/v2/workbooks/"
                              \o PyStr(task[t].arguments["workbook_id"]) \o "/grants"
                        /\ DictKeys(sent[k].json) = {"grants"}
                        /\ Len(GrantsSent(sent[k])) = Len(grants_input)
                        /\ \A i \in 1..Len(grants_input) :
                              /\ DictGet(GrantsSent(sent[k])[i], "permission", PyNone)
                                    = grants_input[i]["permission"]
                              /\ DictGet(GrantsSent(sent[k])[i], "grantee", PyNone).items # <<>>
                              /\ DictGet(GrantsSent(sent[k])[i], "tagId", PyNone)
                                    = (IF Truthy(GetOpt(grants_input[i], "tag_id"))
                                       THEN grants_input[i]["tag_id"] ELSE PyNone)

\* A batch whose first grant is complete and whose second grant names no
\* grantee: the call has ended with the error text and nothing was sent.
C27_Witness ==
    \E t \in PermissionCalls :
        /\ Len(GrantsOf(t)) = 2
        /\ HasGrantee(GrantsOf(t)[1]) /\ HasPermission(GrantsOf(t)[1])
        /\ ~HasGrantee(GrantsOf(t)[2])
        /\ task[t].pc = "done"
        /\ task[t].sent = <<>> /\ task[t].posts = 0
        /\ Text(t) = NoGranteeText

\* C28: a grant that supplies both a member_id and a team_id does not make
\* sigma_grant_permissions refuse the batch, and the grantee sent for it is
\* the memberId alone, with the member_id supplied; every grantee sent
\* upstream has exactly one of memberId and teamId.
SuppliesBoth(grant) ==
    Truthy(GetOpt(grant, "member_id")) /\ Truthy(GetOpt(grant, "team_id"))
Complete(t) ==
    \A i \in 1..Len(GrantsOf(t)) :
        HasGrantee(GrantsOf(t)[i]) /\ HasPermission(GrantsOf(t)[i])
GranteeSent(req, i) == DictGet(GrantsSent(req)[i], "grantee", PyNone)
C28_MemberIdFirst ==
    \A t \in PermissionCalls :
        /\ \A k \in 1..Len(task[t].sent) : \A i \in 1..Len(GrantsSent(task[t].sent[k])) :
              LET grant == GrantsOf(t)[i]
                  grantee == GranteeSent(task[t].sent[k], i)
              IN  /\ grantee.ty = "dict"
                  /\ Len(grantee.items) = 1
                  /\ DictKeys(grantee) \in {{"memberId"}, {"teamId"}}
                  /\ SuppliesBoth(grant) =>
                        grantee = D(<< <<"memberId", grant["member_id"]>> >>)
                  /\ DictHas(grantee, "teamId") =>
                        /\ ~Truthy(GetOpt(grant, "member_id"))
                        /\ grantee = D(<< <<"teamId", grant["team_id"]>> >>)
        /\ Complete(t) =>
              \* accepted: the batch goes to the platform, and a classified
              \* answer gives the success report
              /\ task[t].posts + Len(task[t].sent) >= 1
              /\ task[t].pc = "done" /\ mrLog.caller = t /\ mrLog.classified =>
                    /\ ~task[t].result.failed
                    /\ StartsWith(Text(t), "{")
                    /\ ~Contains(Text(t), "teamId")
                       \/ \E i \in 1..Len(GrantsOf(t)) : ~SuppliesBoth(GrantsOf(t)[i])

\* A batch of one grant with both ids was sent with the memberId alone and
\* the call reported success.
C28_Witness ==
    \E t \in PermissionCalls :
        /\ Len(GrantsOf(t)) = 1 /\ SuppliesBoth(GrantsOf(t)[1])
        /\ task[t].pc = "done" /\ ~task[t].result.failed
        /\ Len(task[t].sent) = 1
        /\ GranteeSent(task[t].sent[1], 1) = D(<< <<"memberId", S("m1")>> >>)

\* C29: sigma_download_export returns the not-ready text if and only if
\* the platform answered the download request with status 204, and a ready
\* JSON body is never rendered as a text body or as a binary body.
NotReadyText == "Export is still processing. Please wait a few seconds and try again."
AnsweredDownloads ==
    {t \in Done : /\ task[t].name = "sigma_download_export"
                  /\ mrLog.caller = t
                  /\ mrLog.classified}
ThroughBodyBranch(t) ==
    StartsWith(Text(t), "Content-Type: ") \/ StartsWith(Text(t), "Export downloaded")
C29_NotReadyIffNoContent ==
    \A t \in AnsweredDownloads :
        /\ Text(t) = NotReadyText <=> mrLog.resp.status = 204
        /\ mrLog.resp.status # 204 /\ BodyKind(mrLog.resp) = "json" =>
              ~ThroughBodyBranch(t)

\* What holds: a 204 gives the not-ready text, and a text or binary body
\* never does and is rendered through its own branch.
C29_NotReadyOutsideJson ==
    \A t \in AnsweredDownloads :
        /\ mrLog.resp.status = 204 => Text(t) = NotReadyText
        /\ mrLog.resp.status # 204 /\ BodyKind(mrLog.resp) # "json" =>
              Text(t) # NotReadyText /\ ThroughBodyBranch(t)

\* C30: in element mode, every row_limit and every offset the caller
\* supplies, offset 0 included, is in the export payload as rowLimit and
\* offset with the value supplied.
ElementExports == {t \in Submitted : ModeOfNonEmpty(task[t].arguments) = "element"}
Forwarded(t, argument, key) ==
    DictGet(task[t].sent[1].json, key, PyNone) = task[t].arguments[argument]
C30_RowsForwarded ==
    \A t \in ElementExports :
        /\ "row_limit" \in DOMAIN task[t].arguments => Forwarded(t, "row_limit", "rowLimit")
        /\ "offset" \in DOMAIN task[t].arguments => Forwarded(t, "offset", "offset")

\* What holds: the values other than 0 are forwarded, and a 0 is left out.
C30_NonZeroRowsForwarded ==
    \A t \in ElementExports :
        /\ "row_limit" \in DOMAIN task[t].arguments =>
              IF Truthy(task[t].arguments["row_limit"])
              THEN Forwarded(t, "row_limit", "rowLimit")
              ELSE ~DictHas(task[t].sent[1].json, "rowLimit")
        /\ "offset" \in DOMAIN task[t].arguments =>
              IF Truthy(task[t].arguments["offset"])
              THEN Forwarded(t, "offset", "offset")
              ELSE ~DictHas(task[t].sent[1].json, "offset")

====
